---- MODULE Spec2Model ----
(***************************************************************************)
(* Verification model of the sportsJS entity-resolution core:               *)
(*   - the NCAA id consolidation map   (src/src/util/ncaa-id-consolidation.js)*)
(*   - ESPN/NCAA team matching         (src/unnamed/part_003)               *)
(*   - ESPN/NCAA game matching         (src/src/games/football-games-college.js)*)
(* Each part has its own specification; the variables of the other parts   *)
(* stay at their initial value.                                            *)
(***************************************************************************)
EXTENDS Integers, Sequences, FiniteSets, TLC

VARIABLES
    consFile,       \* data/raw/ncaa_id_consolidation_map.json: sport -> (id -> id), 0 = no key
    consReturned,   \* the sport map returned by the last addDuplicateMapping call
    consCalls,      \* number of addDuplicateMapping calls made so far
    consLast,       \* the arguments of the last addDuplicateMapping call
    nmPc,           \* functions called alone: "in" before the call, then which function ran
                    \* (scrapeWithRetry, run step by step: the statement about to run)
    nmA, nmB,       \* functions called alone: the arguments
                    \* (scrapeWithRetry: its counters, and what each attempt came to)
    nmOut,          \* functions called alone: the value returned
    tmPc,           \* matchEspnToNcaaTeams: the stage about to run
    espnTeams,      \* matchEspnToNcaaTeams: argument espnTeams
    ncaaTeamsWithIds, \* matchEspnToNcaaTeams: argument ncaaTeamsWithIds
    bindings,       \* matchEspnToNcaaTeams: argument bindings (ncaa id -> espn id)
    primaryMatchedData,    \* merged records of stage 1
    crossSportMatchedData, \* merged records of stage 2
    fuzzyMatchedData,      \* merged records of stage 3
    unmatchedEspn,  \* let unmatchedEspn
    unmatchedNcaa,  \* let unmatchedNcaa
    ncaaFuse,       \* stage 3: per ESPN team searched, the distance Fuse gives each NCAA team
    tmResult,       \* the object matchEspnToNcaaTeams returns
    tmFirst,        \* what an earlier run on the same arguments returned, and what Fuse answered
    gmPc,           \* get_formatted_games: the step about to run
    initialTeamsData, \* get_formatted_games: what get_formated_teams returned
    espnCache,      \* football_college_espn_schedules: espn team id -> games
    ncaaCache,      \* football_college_ncaa_schedules: cache key (ncaa id) -> games
    verbose,        \* get_formatted_games: argument verbose
    now,            \* the clock at the time of the run, in time units
    allGames,       \* let allGames
    unmatchedGames, \* const unmatchedGames (games without reference_id after the team loop)
    potentialBindings,    \* const potentialBindings
    researchableBindings, \* const researchableBindings
    validGames      \* the array get_formatted_games returns

consVars == <<consFile, consReturned, consCalls, consLast>>
nmVars == <<nmPc, nmA, nmB, nmOut>>
tmVars == <<tmPc, espnTeams, ncaaTeamsWithIds, bindings, primaryMatchedData,
            crossSportMatchedData, fuzzyMatchedData, unmatchedEspn, unmatchedNcaa,
            ncaaFuse, tmResult, tmFirst>>
gmVars == <<gmPc, initialTeamsData, espnCache, ncaaCache, verbose, now, allGames,
            unmatchedGames, potentialBindings, researchableBindings, validGames>>

vars == <<consFile, consReturned, consCalls, consLast, nmPc, nmA, nmB, nmOut,
          tmPc, espnTeams, ncaaTeamsWithIds, bindings, primaryMatchedData,
          crossSportMatchedData, fuzzyMatchedData, unmatchedEspn, unmatchedNcaa,
          ncaaFuse, tmResult, tmFirst,
          gmPc, initialTeamsData, espnCache, ncaaCache, verbose, now, allGames,
          unmatchedGames, potentialBindings, researchableBindings, validGames>>

\* What an action of one part leaves alone: the variables of the other parts.
notCons == <<nmVars, tmVars, gmVars>>
notNm == <<consVars, tmVars, gmVars>>
notTm == <<consVars, nmVars, gmVars>>
notGm == <<consVars, nmVars, tmVars>>

(***************************************************************************)
(* Shared helpers                                                          *)
(***************************************************************************)

\* JavaScript null / undefined for an id; ids are positive.
NoId == 0

RECURSIVE SeqToSet(_)
SeqToSet(s) == IF s = <<>> THEN {} ELSE {Head(s)} \cup SeqToSet(Tail(s))

(***************************************************************************)
(* PART A - Canonical id consolidation map                                 *)
(***************************************************************************)

\* Number of distinct NCAA ids the model draws from.
NumIds == 3
\* Number of addDuplicateMapping calls explored.
MaxCalls == 4

NcaaIds == 1..NumIds

\* The sport contexts (keys of SOURCES that the model uses).
Sports == {"football", "basketball"}

EmptySportMap == [i \in NcaaIds |-> NoId]

\* _loadMap: the whole persisted map (a missing sport reads as {}).
LoadMap == consFile

\* getCanonicalNcaaId(ncaaId, sport) evaluated on a given persisted map:
\*   if (!ncaaId || !sport) return ncaaId;  return sportMap[ncaaId] || ncaaId
getCanonicalNcaaIdIn(mainMap, ncaaId, sport) ==
    IF ncaaId = NoId \/ sport \notin Sports THEN ncaaId
    ELSE LET sportMap == mainMap[sport]
         IN  IF ncaaId \in DOMAIN sportMap /\ sportMap[ncaaId] # NoId
             THEN sportMap[ncaaId] ELSE ncaaId

\* A faulty lookup: every id is taken to be canonical.
ResolveNothing(ncaaId, sport) == ncaaId

\* getCanonicalNcaaId reads the file on every call.
getCanonicalNcaaId(ncaaId, sport) == getCanonicalNcaaIdIn(LoadMap, ncaaId, sport)

\* The arguments of a call; NoCall before the first call.
Call(duplicateNcaaId, canonicalNcaaId, sport, save) ==
    [duplicateNcaaId |-> duplicateNcaaId, canonicalNcaaId |-> canonicalNcaaId,
     sport |-> sport, save |-> save]

NoCall == Call(NoId, NoId, "", FALSE)

\* A faulty store: the mapping is written into the map of every sport.
StoreInEverySport(mainMap, sport, duplicateNcaaId, resolvedCanonical) ==
    [s \in DOMAIN mainMap |-> [mainMap[s] EXCEPT ![duplicateNcaaId] = resolvedCanonical]]

\* mainMap[sport][duplicateNcaaId] = resolvedCanonical
StoreMapping(mainMap, sport, duplicateNcaaId, resolvedCanonical) ==
    [mainMap EXCEPT ![sport][duplicateNcaaId] = resolvedCanonical]

\* addDuplicateMapping(duplicateNcaaId, canonicalNcaaId, sport, save)
addDuplicateMapping(duplicateNcaaId, canonicalNcaaId, sport, save) ==
    /\ consCalls < MaxCalls
    /\ LET mainMap == LoadMap
           resolvedCanonical == getCanonicalNcaaId(canonicalNcaaId, sport)
           newMap == StoreMapping(mainMap, sport, duplicateNcaaId, resolvedCanonical)
       IN  /\ consFile' = IF save THEN newMap ELSE consFile
           /\ consReturned' = newMap[sport]
    /\ consCalls' = consCalls + 1
    /\ consLast' = Call(duplicateNcaaId, canonicalNcaaId, sport, save)
    /\ UNCHANGED notCons

AddMapping ==
    \E d \in NcaaIds, c \in NcaaIds, sport \in Sports, save \in BOOLEAN :
        addDuplicateMapping(d, c, sport, save)

ConsInit ==
    /\ consFile = [s \in Sports |-> EmptySportMap]
    /\ consReturned = EmptySportMap
    /\ consCalls = 0
    /\ consLast = NoCall

ConsNext == AddMapping

\* resolve applied n times
RECURSIVE ResolveN(_, _, _)
ResolveN(n, id, sport) ==
    IF n = 0 THEN id ELSE ResolveN(n - 1, getCanonicalNcaaId(id, sport), sport)

IsFixed(id, sport) == getCanonicalNcaaId(id, sport) = id

\* C3: the consolidation map has no cycle through two or more ids: from any
\* id, repeated resolve reaches an id that resolve maps to itself.
C3_NoCycle ==
    \A sport \in Sports : \A id \in NcaaIds :
        \E n \in 0..NumIds : IsFixed(ResolveN(n, id, sport), sport)

\* C4: the map has no chains: every stored target is canonical, so resolve is
\* idempotent and one lookup yields the final canonical id.
C4_NoChains ==
    \A sport \in Sports : \A id \in NcaaIds :
        getCanonicalNcaaId(getCanonicalNcaaId(id, sport), sport)
            = getCanonicalNcaaId(id, sport)

C23_OtherSportsUntouched ==
    [][\A sport \in Sports :
          sport # consLast'.sport =>
              \A x \in NcaaIds :
                  getCanonicalNcaaIdIn(consFile', x, sport)
                      = getCanonicalNcaaIdIn(consFile, x, sport)]_vars

\* The last call saved a mapping of an id for one sport while the same id is
\* a duplicate of another id in another sport.
C23_Witness ==
    /\ consLast.save
    /\ \E sport \in Sports :
          /\ sport # consLast.sport
          /\ consFile[sport][consLast.duplicateNcaaId] # NoId
          /\ consFile[sport][consLast.duplicateNcaaId]
                # consFile[consLast.sport][consLast.duplicateNcaaId]

\* C26: a mapping added without saving is not lost: after the next saving
\* call, the persisted map of its sport holds it (unless that call stores the
\* same duplicate id of the same sport again).
C26_UnsavedMappingWritten ==
    [][(/\ consLast # NoCall
        /\ ~consLast.save
        /\ consLast'.save
        /\ ~(/\ consLast'.sport = consLast.sport
             /\ consLast'.duplicateNcaaId = consLast.duplicateNcaaId))
          => consFile'[consLast.sport][consLast.duplicateNcaaId]
                = consReturned[consLast.duplicateNcaaId]]_vars

(***************************************************************************)
(* PART N - Name normalization (cleanName, generateAcronym, isSafeMatch)   *)
(*                                                                         *)
(* A string is a sequence of one-character strings.  The names the model   *)
(* draws are written over letters, the space and the characters ' & . ( ) -*)
(* so that, once cleanName has removed or replaced the punctuation, a \b   *)
(* word of a regular expression is exactly a space-separated token.        *)
(***************************************************************************)

Uppers == <<"A","B","C","D","E","F","G","H","I","J","K","L","M",
            "N","O","P","Q","R","S","T","U","V","W","X","Y","Z">>
Lowers == <<"a","b","c","d","e","f","g","h","i","j","k","l","m",
            "n","o","p","q","r","s","t","u","v","w","x","y","z">>

ToLowerChar(c) ==
    IF \E i \in 1..Len(Uppers) : Uppers[i] = c
    THEN Lowers[CHOOSE i \in 1..Len(Uppers) : Uppers[i] = c] ELSE c

\* String.prototype.toLowerCase
toLowerCase(s) == [i \in 1..Len(s) |-> ToLowerChar(s[i])]

\* s.replace(/c/g, rep): every occurrence of a character of chars becomes rep(c)
RECURSIVE Flatten(_)
Flatten(ss) == IF ss = <<>> THEN <<>> ELSE Head(ss) \o Flatten(Tail(ss))

ReplaceEach(s, chars, rep(_)) ==
    Flatten([i \in 1..Len(s) |-> IF s[i] \in chars THEN rep(s[i]) ELSE <<s[i]>>])

\* s.split(' '): the tokens between single spaces, empty tokens included
RECURSIVE SplitFrom(_, _)
SplitFrom(s, cur) ==
    IF s = <<>> THEN <<cur>>
    ELSE IF Head(s) = " " THEN <<cur>> \o SplitFrom(Tail(s), <<>>)
    ELSE SplitFrom(Tail(s), Append(cur, Head(s)))

Split(s) == SplitFrom(s, <<>>)

\* words.join(' ')
RECURSIVE Join(_)
Join(ws) ==
    IF ws = <<>> THEN <<>>
    ELSE IF Len(ws) = 1 THEN ws[1]
    ELSE ws[1] \o <<" ">> \o Join(Tail(ws))

W_state == <<"s", "t", "a", "t", "e">>
W_st == <<"s", "t">>
W_saint == <<"s", "a", "i", "n", "t">>
W_mount == <<"m", "o", "u", "n", "t">>
W_mt == <<"m", "t">>
W_california == <<"c", "a", "l", "i", "f", "o", "r", "n", "i", "a">>
W_cal == <<"c", "a", "l">>
W_csu == <<"c", "s", "u">>
W_southern == <<"s", "o", "u", "t", "h", "e", "r", "n">>
W_illinois == <<"i", "l", "l", "i", "n", "o", "i", "s">>
W_siu == <<"s", "i", "u">>
W_suny == <<"s", "u", "n", "y">>
W_university == <<"u", "n", "i", "v", "e", "r", "s", "i", "t", "y">>
W_of == <<"o", "f">>
W_new == <<"n", "e", "w">>
W_york == <<"y", "o", "r", "k">>
W_univ == <<"u", "n", "i", "v">>
W_college == <<"c", "o", "l", "l", "e", "g", "e">>
W_at == <<"a", "t">>
W_and == <<"a", "n", "d">>
W_oh == <<"o", "h">>
W_ohio == <<"o", "h", "i", "o">>
W_fl == <<"f", "l">>
W_florida == <<"f", "l", "o", "r", "i", "d", "a">>
W_tigers == <<"t", "i", "g", "e", "r", "s">>
W_eagles == <<"e", "a", "g", "l", "e", "s">>
W_bulldogs == <<"b", "u", "l", "l", "d", "o", "g", "s">>
W_wildcats == <<"w", "i", "l", "d", "c", "a", "t", "s">>

\* commonNicknames (the entries that occur in the names the model draws)
commonNicknames == {W_eagles, W_tigers, W_bulldogs, W_wildcats}

\* stateMappings (the entries 'oh' and 'fl'), as key/value pairs
stateMappings == {<<W_oh, W_ohio>>, <<W_fl, W_florida>>}

HasStateMapping(key) == \E kv \in stateMappings : kv[1] = key
StateMappingOf(key) == (CHOOSE kv \in stateMappings : kv[1] = key)[2]

\* the callback of .replace(/[.()]/g, (match) => ...): match is the one
\* character matched; content is match without [.()]
StateCallback(match) ==
    LET content == SelectSeq(<<match>>, LAMBDA c : c \notin {".", "(", ")"})
    IN  IF HasStateMapping(content) THEN <<" ">> \o StateMappingOf(content) ELSE <<>>

DropChar(c) == <<>>
AmpToAnd(c) == W_and
DashToSpace(c) == <<" ">>

\* The leading replacements of cleanName, which work on characters:
\*   toLowerCase, /'/g -> '', /&/g -> 'and', /[.()]/g -> callback, /-/g -> ' '
CleanChars(name) ==
    ReplaceEach(
      ReplaceEach(
        ReplaceEach(
          ReplaceEach(toLowerCase(name), {"'"}, DropChar),
          {"&"}, AmpToAnd),
        {".", "(", ")"}, StateCallback),
      {"-"}, DashToSpace)

\* Does the token sequence pat occur in ws at position 1 ?
StartsWith(ws, pat) ==
    /\ Len(ws) >= Len(pat)
    /\ \A i \in 1..Len(pat) : ws[i] = pat[i]

\* s.replace(/\b(p1|p2|...)\b/g, rep) on the token level: pats is the
\* alternation, in order, each alternative a sequence of words separated by
\* single spaces; rep is the replacement word (<<>> for '').
RECURSIVE ReplaceWords(_, _, _)
ReplaceWords(ws, pats, rep) ==
    IF ws = <<>> THEN <<>>
    ELSE IF \E k \in 1..Len(pats) : StartsWith(ws, pats[k])
    THEN LET k == CHOOSE k \in 1..Len(pats) :
                    /\ StartsWith(ws, pats[k])
                    /\ \A j \in 1..(k - 1) : ~StartsWith(ws, pats[j])
         IN  <<rep>> \o ReplaceWords(SubSeq(ws, Len(pats[k]) + 1, Len(ws)), pats, rep)
    ELSE <<Head(ws)>> \o ReplaceWords(Tail(ws), pats, rep)

\* The word replacements of cleanName, in the order of the source.
CleanWords(ws) ==
    LET r1 == ReplaceWords(ws, <<(<<W_st>>), (<<W_state>>)>>, W_state)
        r2 == ReplaceWords(r1, <<(<<W_saint>>)>>, W_st)
        r3 == ReplaceWords(r2, <<(<<W_mount>>), (<<W_mt>>)>>, W_mount)
        r4 == ReplaceWords(r3, <<(<<W_california, W_state>>), (<<W_cal, W_state>>)>>, W_csu)
        r5 == ReplaceWords(r4, <<(<<W_southern, W_illinois>>)>>, W_siu)
        r6 == ReplaceWords(r5, <<(<<W_suny>>),
                                 (<<W_state, W_university, W_of, W_new, W_york>>)>>, W_suny)
        r7 == ReplaceWords(r6, <<(<<W_university, W_of>>), (<<W_university>>),
                                 (<<W_univ>>), (<<W_college>>)>>, <<>>)
        r8 == ReplaceWords(r7, <<(<<W_at>>)>>, <<>>)
    IN  r8

\* cleanName(name)
cleanName(name) ==
    IF name = <<>> THEN <<>>
    ELSE LET processed == CleanWords(Split(CleanChars(name)))
             words == SelectSeq(processed, LAMBDA w : w \notin commonNicknames)
         \* join(' ').replace(/\s+/g, ' ').trim(): the empty tokens vanish
         IN  Join(SelectSeq(words, LAMBDA w : w # <<>>))

\* The 0.8 of isSafeMatch as the fraction SafeRatioNum / SafeRatioDen.
SafeRatioNum == 4
SafeRatioDen == 5

\* isSafeMatch, from const [clean1, clean2] = [...] on
isSafeClean(clean1, clean2) ==
    LET words1 == SeqToSet(Split(clean1))
        words2 == SeqToSet(Split(clean2))
        intersectionSize == Cardinality(words1 \cap words2)
        minSize == IF Cardinality(words1) <= Cardinality(words2)
                   THEN Cardinality(words1) ELSE Cardinality(words2)
    IN  \/ clean1 = clean2
        \* intersectionSize / Math.min(words1.size, words2.size) > 0.8
        \/ intersectionSize * SafeRatioDen > SafeRatioNum * minSize

\* isSafeMatch(name1, name2) of _leverageExistingBindings
isSafeMatch(name1, name2) ==
    IF name1 = <<>> \/ name2 = <<>> THEN FALSE
    ELSE isSafeClean(cleanName(name1), cleanName(name2))

N_TowsonTigers == <<"T", "o", "w", "s", "o", "n", " ", "T", "i", "g", "e", "r", "s">>
N_Towson == <<"T", "o", "w", "s", "o", "n">>
N_MiamiOH == <<"M", "i", "a", "m", "i", " ", "(", "O", "H", ")">>
N_Miami == <<"M", "i", "a", "m", "i">>
N_KentSt == <<"K", "e", "n", "t", " ", "S", "t", ".">>
N_KentState == <<"K", "e", "n", "t", " ", "S", "t", "a", "t", "e">>
N_StJohns == <<"S", "t", ".", " ", "J", "o", "h", "n", "'", "s">>
N_SaintFrancis == <<"S", "a", "i", "n", "t", " ", "F", "r", "a", "n", "c", "i", "s">>
N_NWSaintMaryTech == <<"N", "o", "r", "t", "h", " ", "W", "e", "s", "t", " ", "S", "a", "i", "n", "t", " ", "M", "a", "r", "y", " ", "T", "e", "c", "h">>
N_NWSaintMaryPoly == <<"N", "o", "r", "t", "h", " ", "W", "e", "s", "t", " ", "S", "a", "i", "n", "t", " ", "M", "a", "r", "y", " ", "P", "o", "l", "y">>
N_University == <<"U", "n", "i", "v", "e", "r", "s", "i", "t", "y">>
N_College == <<"C", "o", "l", "l", "e", "g", "e">>
N_TexasAM == <<"T", "e", "x", "a", "s", " ", "A", "&", "M">>
N_CalStateFullerton == <<"C", "a", "l", " ", "S", "t", "a", "t", "e", " ", "F", "u", "l", "l", "e", "r", "t", "o", "n">>
N_UniversityOfAkron == <<"U", "n", "i", "v", "e", "r", "s", "i", "t", "y", " ", "o", "f", " ", "A", "k", "r", "o", "n">>
N_Akron == <<"A", "k", "r", "o", "n">>
N_Tigers == <<"T", "i", "g", "e", "r", "s">>

\* The names the name-function specification draws its arguments from.
NamePool ==
    {N_TowsonTigers, N_Towson, N_MiamiOH, N_Miami, N_KentSt, N_KentState,
     N_StJohns, N_SaintFrancis, N_NWSaintMaryTech, N_NWSaintMaryPoly,
     N_University, N_College, N_TexasAM, N_CalStateFullerton,
     N_UniversityOfAkron, N_Akron, N_Tigers}

NmInit ==
    /\ nmPc = "in"
    /\ nmA \in NamePool
    /\ nmB \in NamePool
    /\ nmOut = <<>>

\* a call isSafeMatch(nmA, nmB)
CallIsSafeMatch ==
    /\ nmPc = "in"
    /\ nmOut' = isSafeMatch(nmA, nmB)
    /\ nmPc' = "isSafeMatch"
    /\ UNCHANGED <<nmA, nmB, notNm>>

\* a call cleanName(nmA)
CallCleanName ==
    /\ nmPc = "in"
    /\ nmOut' = cleanName(nmA)
    /\ nmPc' = "cleanName"
    /\ UNCHANGED <<nmA, nmB, notNm>>

NmNext == CallIsSafeMatch \/ CallCleanName

\* The number of tokens two cleaned names share and the smaller token count.
SharedTokens(a, b) ==
    Cardinality(SeqToSet(Split(cleanName(a))) \cap SeqToSet(Split(cleanName(b))))
SmallerTokenCount(a, b) ==
    LET ca == Cardinality(SeqToSet(Split(cleanName(a))))
        cb == Cardinality(SeqToSet(Split(cleanName(b))))
    IN  IF ca <= cb THEN ca ELSE cb

\* C8: two names are a safe match exactly when their normalized forms are
\* equal or shared tokens / smaller token count is at least 0.8 (a ratio of
\* exactly 0.8 counts as a safe match).
C8_SafeMatchAtLeast80 ==
    nmPc = "isSafeMatch" =>
        (nmOut <=> (\/ cleanName(nmA) = cleanName(nmB)
                    \/ SharedTokens(nmA, nmB) * 5 >= 4 * SmallerTokenCount(nmA, nmB)))

\* C11: cleanName is idempotent: cleaning a cleaned name returns it unchanged.
C11_CleanNameIdempotent ==
    nmPc = "cleanName" => cleanName(nmOut) = nmOut

(***************************************************************************)
(* PART B - ESPN/NCAA team matching (matchEspnToNcaaTeams)                 *)
(*                                                                         *)
(* An id is a positive integer standing for the id string of the source    *)
(* (String(id) is that string); null is NoId.  A team record carries the   *)
(* fields the matcher reads.                                               *)
(***************************************************************************)

\* Longest ESPN team list and longest NCAA team list the model draws.
MaxEspn == 2
MaxNcaa == 2
\* Most teams, of the two lists together, of a run that is repeated.
MaxTwiceTeams == 3

EspnTeam(id, displayName, location, name, abbreviation) ==
    [id |-> id, displayName |-> displayName, shortDisplayName |-> location,
     location |-> location, name |-> name, abbreviation |-> abbreviation]

NcaaTeam(ncaa_id, school_name, name_ncaa) ==
    [ncaa_id |-> ncaa_id, school_name |-> school_name, name_ncaa |-> name_ncaa,
     university |-> <<>>]

\* ESPN teams: the ids of the ESPN team list are distinct.
EspnPool ==
    {EspnTeam(1, N_TowsonTigers, N_Towson, N_Tigers, <<"T", "O", "W">>),
     EspnTeam(2, N_Miami, N_Miami, <<>>, <<"M">>),
     EspnTeam(3, N_KentState, N_KentState, <<>>, <<"K", "e", "n", "t">>),
     EspnTeam(4, N_UniversityOfAkron, N_Akron, <<>>, <<>>)}

\* NCAA teams: two records carry the id 2, two (backup schools) carry no id.
NcaaPool ==
    {NcaaTeam(1, N_Towson, N_Towson),
     NcaaTeam(2, N_MiamiOH, <<>>),
     NcaaTeam(2, N_KentSt, <<>>),
     NcaaTeam(NoId, N_Akron, N_Akron),
     NcaaTeam(NoId, N_StJohns, N_StJohns)}

\* A bindings object { ncaaId: espnId }: the ESPN id bound to each NCAA id.
Binding(e1, e2, e3) ==
    [i \in NcaaIds |-> IF i = 1 THEN e1 ELSE IF i = 2 THEN e2
                       ELSE IF i = 3 THEN e3 ELSE NoId]

BindingPool ==
    {Binding(NoId, NoId, NoId), Binding(1, NoId, NoId), Binding(NoId, 2, NoId),
     Binding(1, 1, NoId), Binding(NoId, 3, 2)}

\* The lists of at most n distinct elements of S.
ListsOf(S, n) ==
    {s \in UNION {[1..k -> S] : k \in 0..n} :
        \A i, j \in DOMAIN s : i # j => s[i] # s[j]}

\* A faulty lookup: the binding table is not consulted.
BindingIgnored(b, ncaaId) == NoId

\* bindings[ncaaId] (undefined reads as NoId)
BindingOf(b, ncaaId) == IF ncaaId \in DOMAIN b THEN b[ncaaId] ELSE NoId

\* { ...espnTeam, ...ncaaTeam }
Merge(espnTeam, ncaaTeam) ==
    [k \in DOMAIN espnTeam \cup DOMAIN ncaaTeam |->
        IF k \in DOMAIN ncaaTeam THEN ncaaTeam[k] ELSE espnTeam[k]]

\* espnTeamMap.get(espnId): new Map(pairs) keeps the last team of an id
HasEspnTeam(teams, espnId) == \E i \in DOMAIN teams : teams[i].id = espnId
espnTeamMap(teams, espnId) ==
    teams[CHOOSE i \in DOMAIN teams :
            /\ teams[i].id = espnId
            /\ \A j \in DOMAIN teams : teams[j].id = espnId => j <= i]

\* A faulty filter: the teams already used stay in contention.
KeepUsedTeams(teams, usedIds) == teams

\* teams.filter(team => !usedIds.has(team.id))
FilterEspn(teams, usedIds) == SelectSeq(teams, LAMBDA t : t.id \notin usedIds)
\* teams.filter(team => !usedIds.has(team.ncaa_id))
FilterNcaa(teams, usedIds) == SelectSeq(teams, LAMBDA t : t.ncaa_id \notin usedIds)

EmptyMatches == [matches |-> <<>>, usedEspnIds |-> {}, usedNcaaIds |-> {}]

\* STAGE 1, the body of ncaaTeamsWithIds.forEach
PrimaryStep(acc, ncaaTeam, teams, b) ==
    LET ncaaId == ncaaTeam.ncaa_id
        espnId == BindingOf(b, ncaaId)
    IN  IF /\ espnId # NoId
           /\ HasEspnTeam(teams, espnId)
           /\ espnId \notin acc.usedEspnIds
           /\ ncaaId \notin acc.usedNcaaIds
        THEN [matches |-> Append(acc.matches, Merge(espnTeamMap(teams, espnId), ncaaTeam)),
              usedEspnIds |-> acc.usedEspnIds \cup {espnId},
              usedNcaaIds |-> acc.usedNcaaIds \cup {ncaaId}]
        ELSE acc

RECURSIVE PrimaryMatching(_, _, _, _)
PrimaryMatching(ncaaTeams, n, teams, b) ==
    IF n = 0 THEN EmptyMatches
    ELSE PrimaryStep(PrimaryMatching(ncaaTeams, n - 1, teams, b), ncaaTeams[n], teams, b)

\* [a, b, c].filter(Boolean)
FilterBoolean(names) == SelectSeq(names, LAMBDA k : k # <<>>)

\* the predicate of unmatchedNcaaTeams.find in _leverageExistingBindings
SafeTeams(eTeam, n) ==
    LET ks == FilterBoolean(<<eTeam.displayName, eTeam.location, eTeam.name>>)
        nks == FilterBoolean(<<n.school_name, n.name_ncaa, n.university>>)
    IN  \E i \in DOMAIN ks : \E j \in DOMAIN nks : isSafeMatch(ks[i], nks[j])

\* if (match) { newMatches.push(...); usedEspn.add(...); usedNcaa.add(...) }
CrossTake(acc, eTeam, match) ==
    [matches |-> Append(acc.matches, [espnTeam |-> eTeam, ncaaTeam |-> match]),
     usedEspnIds |-> acc.usedEspnIds \cup {eTeam.id},
     usedNcaaIds |-> acc.usedNcaaIds \cup {match.ncaa_id}]

\* unmatchedNcaaTeams.find(...): the first of the candidates cand, if any
CrossFind(acc, eTeam, ncaaTeams, cand) ==
    IF cand = {} THEN acc
    ELSE CrossTake(acc, eTeam, ncaaTeams[CHOOSE j \in cand : \A j2 \in cand : j <= j2])

\* STAGE 2, the body of unmatchedEspnTeams.forEach
CrossStep(acc, eTeam, ncaaTeams) ==
    IF eTeam.id \in acc.usedEspnIds THEN acc
    ELSE CrossFind(acc, eTeam, ncaaTeams,
                   {j \in DOMAIN ncaaTeams :
                        /\ ncaaTeams[j].ncaa_id \notin acc.usedNcaaIds
                        /\ SafeTeams(eTeam, ncaaTeams[j])})

RECURSIVE CrossMatching(_, _, _)
CrossMatching(eTeams, n, ncaaTeams) ==
    IF n = 0 THEN EmptyMatches
    ELSE CrossStep(CrossMatching(eTeams, n - 1, ncaaTeams), eTeams[n], ncaaTeams)

\* { newMatches, remainingEspn, remainingNcaa } of a matching stage, r being
\* its matches and its two sets of used ids
StageResult(eTeams, ncaaTeams, r) ==
    [newMatches |-> r.matches,
     remainingEspn |-> FilterEspn(eTeams, r.usedEspnIds),
     remainingNcaa |-> FilterNcaa(ncaaTeams, r.usedNcaaIds)]

\* _leverageExistingBindings(unmatchedEspnTeams, unmatchedNcaaTeams)
leverageExistingBindings(eTeams, ncaaTeams) ==
    StageResult(eTeams, ncaaTeams, CrossMatching(eTeams, Len(eTeams), ncaaTeams))

\* Fuse distances in hundredths: the Fuse option threshold: 0.4 and the
\* bound of results[0]?.score < 0.35.
FuseThreshold == 40
FuzzyAccept == 35

\* The distances Fuse may give a pair (Fuse.js is a library: any distance).
ScoreValues == {10, 34, 35, 45}

\* A faulty sort: the list stays in the order it was built in.
KeepOrder(sorted, x) == Append(sorted, x)

\* Array.prototype.sort((a, b) => a.score - b.score): stable, ascending
InsertByScore(sorted, x) ==
    LET k == Cardinality({i \in DOMAIN sorted : sorted[i].score <= x.score})
    IN  SubSeq(sorted, 1, k) \o <<x>> \o SubSeq(sorted, k + 1, Len(sorted))

RECURSIVE SortByScore(_, _)
SortByScore(s, n) ==
    IF n = 0 THEN <<>> ELSE InsertByScore(SortByScore(s, n - 1), s[n])

\* ncaaFuse.search(query): the items within the threshold, best first
FuseSearch(scores) ==
    LET within == SelectSeq(scores, LAMBDA r : r.score <= FuseThreshold)
    IN  SortByScore(within, Len(within))

\* A faulty acceptance: any top result Fuse returns (within its threshold).
AcceptAnyTop(results) == results # <<>> /\ results[1].score <= FuseThreshold

\* results[0]?.score < 0.35
AcceptTop(results) == results # <<>> /\ results[1].score < FuzzyAccept

\* the reducer that builds potentialMatches, before the sort
RECURSIVE PotentialMatches(_, _)
PotentialMatches(fuse, n) ==
    IF n = 0 THEN <<>>
    ELSE LET acc == PotentialMatches(fuse, n - 1)
             results == FuseSearch(fuse[n].scores)
         IN  IF AcceptTop(results)
             THEN Append(acc, [espnTeam |-> fuse[n].espnTeam,
                               ncaaTeam |-> results[1].item,
                               score |-> results[1].score])
             ELSE acc

\* the body of potentialMatches.forEach
FuzzyStep(acc, match) ==
    IF /\ match.espnTeam.id \notin acc.usedEspnIds
       /\ match.ncaaTeam.ncaa_id \notin acc.usedNcaaIds
    THEN [matches |-> Append(acc.matches, [espnTeam |-> match.espnTeam,
                                           ncaaTeam |-> match.ncaaTeam]),
          usedEspnIds |-> acc.usedEspnIds \cup {match.espnTeam.id},
          usedNcaaIds |-> acc.usedNcaaIds \cup {match.ncaaTeam.ncaa_id}]
    ELSE acc

RECURSIVE FuzzyMatching(_, _)
FuzzyMatching(potentialMatches, n) ==
    IF n = 0 THEN EmptyMatches
    ELSE FuzzyStep(FuzzyMatching(potentialMatches, n - 1), potentialMatches[n])

\* _performFuzzyMatching(unmatchedEspn, unmatchedNcaa), fuse being what the
\* Fuse index answers for each ESPN team
performFuzzyMatching(eTeams, ncaaTeams, fuse) ==
    LET unsorted == PotentialMatches(fuse, Len(fuse))
        potentialMatches == SortByScore(unsorted, Len(unsorted))
    IN  StageResult(eTeams, ncaaTeams,
                    FuzzyMatching(potentialMatches, Len(potentialMatches)))

\* newMatches.map(match => ({ ...match.espnTeam, ...match.ncaaTeam }))
MergeAll(newMatches) ==
    [i \in 1..Len(newMatches) |-> Merge(newMatches[i].espnTeam, newMatches[i].ncaaTeam)]

\* String.prototype.toUpperCase
ToUpperChar(c) ==
    IF \E i \in 1..Len(Lowers) : Lowers[i] = c
    THEN Uppers[CHOOSE i \in 1..Len(Lowers) : Lowers[i] = c] ELSE c

toUpperCase(s) == [i \in 1..Len(s) |-> ToUpperChar(s[i])]

\* length = 8, the default of generateId
IdLength == 8
PrefixMax == 3
PrefixMin == 2

\* crypto.createHash("sha256").update(String(input)).digest("hex"): the first
\* characters of the digest of the id strings "1" to "4"
Sha256Hex(input) ==
    IF input = 1 THEN <<"6", "b", "8", "6", "b", "2">>
    ELSE IF input = 2 THEN <<"d", "4", "7", "3", "5", "e">>
    ELSE IF input = 3 THEN <<"4", "e", "0", "7", "4", "0">>
    ELSE <<"4", "b", "2", "2", "7", "7">>

\* prefix.padEnd(2, "x")
RECURSIVE PadEnd(_, _)
PadEnd(prefix, n) == IF Len(prefix) >= n THEN prefix ELSE PadEnd(Append(prefix, "x"), n)

\* abbreviation.slice(0, 3), padded when shorter than 2
IdPrefix(abbreviation) ==
    PadEnd(SubSeq(abbreviation, 1,
                  IF Len(abbreviation) < PrefixMax THEN Len(abbreviation) ELSE PrefixMax),
           PrefixMin)

\* generateId(input, abbreviation)
generateId(input, abbreviation) ==
    toUpperCase(IdPrefix(abbreviation)
                \o SubSeq(Sha256Hex(input), 1, IdLength - Len(IdPrefix(abbreviation))))

\* formatTeamFn, the formatter the caller passes: it is applied to each merged
\* record; the model keeps the two ids of the record and the internal id the
\* formatter derives, id: generateId(team.id, team.abbreviation).
formatTeamFn(team) ==
    [id |-> generateId(team.id, team.abbreviation),
     espn_id |-> team.id, ncaa_id |-> team.ncaa_id]

\* A faulty update: the bindings are returned as they came.
KeepBindings(b, all, n) == b

\* allMatchedData.forEach(team => { if (team.ncaa_id && team.id) ... })
RECURSIVE UpdateBindings(_, _, _)
UpdateBindings(b, all, n) ==
    IF n = 0 THEN b
    ELSE LET acc == UpdateBindings(b, all, n - 1)
             team == all[n]
         IN  IF team.ncaa_id # NoId /\ team.id # NoId
             THEN [k \in DOMAIN acc \cup {team.ncaa_id} |->
                     IF k = team.ncaa_id THEN team.id ELSE acc[k]]
             ELSE acc

\* the searches of a run: each ESPN team searched and the items of the index
Searches(fuse) ==
    [i \in DOMAIN fuse |->
        [espnTeam |-> fuse[i].espnTeam,
         items |-> [j \in DOMAIN fuse[i].scores |-> fuse[i].scores[j].item]]]

\* what the index of ncaaTeams may answer when each team of eTeams is searched
AnyAnswers(first, eTeams, ncaaTeams) ==
    {[i \in 1..Len(eTeams) |->
        [espnTeam |-> eTeams[i],
         scores |-> [j \in 1..Len(ncaaTeams) |->
                       [item |-> ncaaTeams[j], score |-> sc[i][j]]]]] :
        sc \in [DOMAIN eTeams -> [DOMAIN ncaaTeams -> ScoreValues]]}

\* Do the answers give an ESPN team and an item the distance the earlier
\* answers gave them ?  (the distance of an item is computed from the query
\* and the item alone)
SameDistances(earlier, fuse) ==
    \A i \in DOMAIN fuse : \A j \in DOMAIN fuse[i].scores :
        \A i2 \in DOMAIN earlier : \A j2 \in DOMAIN earlier[i2].scores :
            (/\ earlier[i2].espnTeam = fuse[i].espnTeam
             /\ earlier[i2].scores[j2].item = fuse[i].scores[j].item)
                => earlier[i2].scores[j2].score = fuse[i].scores[j].score

\* ncaaFuse.search(...) is a function of the index and the query: the
\* searches of an earlier run get the distances they got then
FuseAnswers(first, eTeams, ncaaTeams) ==
    IF first # <<>> /\ first.fuse \in AnyAnswers(first, eTeams, ncaaTeams)
    THEN {first.fuse}
    ELSE IF first # <<>>
    THEN {fuse \in AnyAnswers(first, eTeams, ncaaTeams) : SameDistances(first.fuse, fuse)}
    ELSE AnyAnswers(first, eTeams, ncaaTeams)

TmLocalsEmpty ==
    /\ primaryMatchedData = <<>>
    /\ crossSportMatchedData = <<>>
    /\ fuzzyMatchedData = <<>>
    /\ unmatchedEspn = <<>>
    /\ unmatchedNcaa = <<>>
    /\ ncaaFuse = <<>>
    /\ tmResult = <<>>
    /\ tmFirst = <<>>

TmInit ==
    /\ tmPc = "stage1"
    /\ espnTeams \in ListsOf(EspnPool, MaxEspn)
    /\ ncaaTeamsWithIds \in ListsOf(NcaaPool, MaxNcaa)
    /\ bindings \in BindingPool
    /\ TmLocalsEmpty

\* STAGE 1: Primary matching using existing bindings
Stage1Primary ==
    /\ tmPc = "stage1"
    /\ \E r \in {PrimaryMatching(ncaaTeamsWithIds, Len(ncaaTeamsWithIds), espnTeams, bindings)} :
           /\ primaryMatchedData' = r.matches
           /\ unmatchedEspn' = FilterEspn(espnTeams, r.usedEspnIds)
           /\ unmatchedNcaa' = FilterNcaa(ncaaTeamsWithIds, r.usedNcaaIds)
    /\ tmPc' = "stage2"
    /\ UNCHANGED <<espnTeams, ncaaTeamsWithIds, bindings, crossSportMatchedData,
                   fuzzyMatchedData, ncaaFuse, tmResult, tmFirst, notTm>>

\* STAGE 2: Cross-sport binding leverage
Stage2CrossSport ==
    /\ tmPc = "stage2"
    /\ \E crossSportResults \in {leverageExistingBindings(unmatchedEspn, unmatchedNcaa)} :
           /\ crossSportMatchedData' = MergeAll(crossSportResults.newMatches)
           /\ unmatchedEspn' = crossSportResults.remainingEspn
           /\ unmatchedNcaa' = crossSportResults.remainingNcaa
    /\ tmPc' = "stage3"
    /\ UNCHANGED <<espnTeams, ncaaTeamsWithIds, bindings, primaryMatchedData,
                   fuzzyMatchedData, ncaaFuse, tmResult, tmFirst, notTm>>

\* STAGE 3: Fuzzy matching for the remaining teams
Stage3Fuzzy ==
    /\ tmPc = "stage3"
    /\ \E fuse \in FuseAnswers(tmFirst, unmatchedEspn, unmatchedNcaa) :
         \E fuzzyResults \in {performFuzzyMatching(unmatchedEspn, unmatchedNcaa, fuse)} :
             /\ ncaaFuse' = fuse
             /\ fuzzyMatchedData' = MergeAll(fuzzyResults.newMatches)
             /\ unmatchedEspn' = fuzzyResults.remainingEspn
             /\ unmatchedNcaa' = fuzzyResults.remainingNcaa
    /\ tmPc' = "stage4"
    /\ UNCHANGED <<espnTeams, ncaaTeamsWithIds, bindings, primaryMatchedData,
                   crossSportMatchedData, tmResult, tmFirst, notTm>>

\* STAGE 4: Final combination and formatting
Stage4Combine ==
    /\ tmPc = "stage4"
    /\ LET allMatchedData == primaryMatchedData \o crossSportMatchedData \o fuzzyMatchedData
       IN  tmResult' =
             [matchedTeams |-> [i \in 1..Len(allMatchedData) |-> formatTeamFn(allMatchedData[i])],
              unmatchedEspn |-> unmatchedEspn,
              unmatchedNcaa |-> unmatchedNcaa,
              updatedBindings |-> UpdateBindings(bindings, allMatchedData, Len(allMatchedData))]
    /\ tmPc' = "done"
    /\ UNCHANGED <<espnTeams, ncaaTeamsWithIds, bindings, primaryMatchedData,
                   crossSportMatchedData, fuzzyMatchedData, unmatchedEspn, unmatchedNcaa,
                   ncaaFuse, tmFirst, notTm>>

TmNext == Stage1Primary \/ Stage2CrossSport \/ Stage3Fuzzy \/ Stage4Combine

\* matchEspnToNcaaTeams is called once more with the arguments of the run
\* that has returned.
RunAgain ==
    /\ tmPc = "done"
    /\ tmFirst = <<>>
    /\ tmFirst' = [result |-> tmResult, fuse |-> ncaaFuse]
    /\ tmPc' = "stage1"
    /\ primaryMatchedData' = <<>>
    /\ crossSportMatchedData' = <<>>
    /\ fuzzyMatchedData' = <<>>
    /\ unmatchedEspn' = <<>>
    /\ unmatchedNcaa' = <<>>
    /\ ncaaFuse' = <<>>
    /\ tmResult' = <<>>
    /\ UNCHANGED <<espnTeams, ncaaTeamsWithIds, bindings, notTm>>

TmTwiceNext == TmNext \/ RunAgain

\* matchEspnToNcaaTeams is called once more with the two team lists of the
\* run that has returned and the updatedBindings it returned.
RunAgainWithUpdatedBindings ==
    /\ tmPc = "done"
    /\ tmFirst = <<>>
    /\ tmFirst' = [result |-> tmResult, fuse |-> ncaaFuse,
                   allMatchedData |-> primaryMatchedData \o crossSportMatchedData \o fuzzyMatchedData]
    /\ bindings' = tmResult.updatedBindings
    /\ tmPc' = "stage1"
    /\ primaryMatchedData' = <<>>
    /\ crossSportMatchedData' = <<>>
    /\ fuzzyMatchedData' = <<>>
    /\ unmatchedEspn' = <<>>
    /\ unmatchedNcaa' = <<>>
    /\ ncaaFuse' = <<>>
    /\ tmResult' = <<>>
    /\ UNCHANGED <<espnTeams, ncaaTeamsWithIds, notTm>>

TmFedBackNext == TmNext \/ RunAgainWithUpdatedBindings

\* The merged records of the three stages, and the two halves of one.
AllMatched == primaryMatchedData \o crossSportMatchedData \o fuzzyMatchedData
EspnHalf(m) ==
    [k \in {"id", "displayName", "shortDisplayName", "location", "name", "abbreviation"} |-> m[k]]
NcaaHalf(m) == [k \in {"ncaa_id", "school_name", "name_ncaa", "university"} |-> m[k]]

\* C2: in the result of matchEspnToNcaaTeams no ESPN id and no NCAA id occurs
\* in more than one merged team, whichever stage produced the merge, and no
\* input record is merged twice (a record merged in an earlier stage is not
\* merged again in a later one).
C2_NoTeamMergedTwice ==
    /\ \A i, j \in DOMAIN AllMatched : i # j =>
          /\ AllMatched[i].id # AllMatched[j].id
          /\ AllMatched[i].ncaa_id # NoId =>
                AllMatched[i].ncaa_id # AllMatched[j].ncaa_id
          /\ EspnHalf(AllMatched[i]) # EspnHalf(AllMatched[j])
          /\ NcaaHalf(AllMatched[i]) # NcaaHalf(AllMatched[j])
    /\ tmPc = "done" =>
          \A i, j \in DOMAIN tmResult.matchedTeams : i # j =>
             /\ tmResult.matchedTeams[i].espn_id # tmResult.matchedTeams[j].espn_id
             /\ tmResult.matchedTeams[i].ncaa_id # NoId =>
                   tmResult.matchedTeams[i].ncaa_id # tmResult.matchedTeams[j].ncaa_id

\* Two merges of different stages are in the result, and the ESPN team merged
\* by a binding in stage 1 is a safe name match of an NCAA record that stage 1
\* left unmatched (stage 2 would take it, had stage 1 not removed the team).
C2_Witness ==
    /\ tmPc = "done"
    /\ Len(tmResult.matchedTeams) = 2
    /\ crossSportMatchedData # <<>> \/ fuzzyMatchedData # <<>>
    /\ \E k \in DOMAIN primaryMatchedData : \E i \in DOMAIN ncaaTeamsWithIds :
          /\ \A k2 \in DOMAIN primaryMatchedData :
                primaryMatchedData[k2].ncaa_id # ncaaTeamsWithIds[i].ncaa_id
          /\ SafeTeams(EspnHalf(primaryMatchedData[k]), ncaaTeamsWithIds[i])

\* C7: the fuzzy stage merges an ESPN team only with the single top-ranked
\* result of its search (no other NCAA team has a smaller distance), and only
\* when that distance is strictly below 0.35.
C7_FuzzyTopBelow035 ==
    tmPc \in {"stage4", "done"} =>
        \A k \in DOMAIN fuzzyMatchedData :
            \E q \in DOMAIN ncaaFuse :
                \E j \in DOMAIN ncaaFuse[q].scores :
                    LET sc == ncaaFuse[q].scores
                    IN  /\ fuzzyMatchedData[k] = Merge(ncaaFuse[q].espnTeam, sc[j].item)
                        /\ sc[j].score < 35
                        /\ \A j2 \in DOMAIN sc : sc[j].score <= sc[j2].score
                        /\ \A j2 \in DOMAIN sc : sc[j2].score = sc[j].score => j <= j2

\* A fuzzy merge at distance 0.34 whose search also ranked a second NCAA team,
\* at distance 0.35.
C7_Witness ==
    /\ tmPc = "done"
    /\ \E k \in DOMAIN fuzzyMatchedData : \E q \in DOMAIN ncaaFuse :
          \E j, j2 \in DOMAIN ncaaFuse[q].scores :
              LET sc == ncaaFuse[q].scores
              IN  /\ fuzzyMatchedData[k] = Merge(ncaaFuse[q].espnTeam, sc[j].item)
                  /\ sc[j].score = 34
                  /\ sc[j2].score = 35

\* How often a record occurs in a list.
Count(list, x) == Cardinality({k \in DOMAIN list : list[k] = x})

\* C9: every input ESPN record and every input NCAA record ends in exactly
\* one of the merged teams or the matching unmatched list, also when several
\* NCAA records carry the same id.
C9_EveryRecordMergedOrUnmatched ==
    tmPc = "done" =>
        /\ \A i \in DOMAIN espnTeams :
              Count([k \in DOMAIN AllMatched |-> EspnHalf(AllMatched[k])], espnTeams[i])
                + Count(tmResult.unmatchedEspn, espnTeams[i]) = 1
        /\ \A i \in DOMAIN ncaaTeamsWithIds :
              Count([k \in DOMAIN AllMatched |-> NcaaHalf(AllMatched[k])], ncaaTeamsWithIds[i])
                + Count(tmResult.unmatchedNcaa, ncaaTeamsWithIds[i]) = 1

\* The ESPN id the argument bindings holds for an NCAA id, and the ESPN
\* record of an id.
BoundTo(ncaaId) == IF ncaaId \in DOMAIN bindings THEN bindings[ncaaId] ELSE NoId
EspnRecord(espnId) == espnTeams[CHOOSE i \in DOMAIN espnTeams : espnTeams[i].id = espnId]

\* The NCAA record at position i is bound to an ESPN record of the input and
\* no earlier NCAA record is bound to that ESPN id.
FirstBound(i) ==
    /\ BoundTo(ncaaTeamsWithIds[i].ncaa_id) # NoId
    /\ \E e \in DOMAIN espnTeams : espnTeams[e].id = BoundTo(ncaaTeamsWithIds[i].ncaa_id)
    /\ \A j \in 1..(i - 1) :
          BoundTo(ncaaTeamsWithIds[j].ncaa_id) # BoundTo(ncaaTeamsWithIds[i].ncaa_id)

\* C13: if bindings maps NCAA id b to ESPN id a, both records are in the
\* input and no earlier NCAA record is bound to a, then the pair is merged by
\* stage 1 whatever the names, the result holds the team with both ids, and
\* neither record is among the teams handed to stage 2 or stage 3.
C13_BoundPairMerged ==
    tmPc \in {"stage2", "stage3", "stage4", "done"} =>
        \A i \in DOMAIN ncaaTeamsWithIds :
            FirstBound(i) =>
                LET ncaaTeam == ncaaTeamsWithIds[i]
                    espnTeam == EspnRecord(BoundTo(ncaaTeam.ncaa_id))
                IN  /\ \E k \in DOMAIN primaryMatchedData :
                          primaryMatchedData[k] = Merge(espnTeam, ncaaTeam)
                    /\ tmPc \in {"stage2", "stage3"} =>
                          /\ \A k \in DOMAIN unmatchedEspn : unmatchedEspn[k] # espnTeam
                          /\ \A k \in DOMAIN unmatchedNcaa : unmatchedNcaa[k] # ncaaTeam
                    /\ tmPc = "done" =>
                          \E k \in DOMAIN tmResult.matchedTeams :
                              /\ tmResult.matchedTeams[k].espn_id = espnTeam.id
                              /\ tmResult.matchedTeams[k].ncaa_id = ncaaTeam.ncaa_id

\* A bound pair whose names are no safe match of each other was merged, and
\* an NCAA record that is a safe name match of that ESPN team was left over.
C13_Witness ==
    /\ tmPc = "done"
    /\ \E i, j \in DOMAIN ncaaTeamsWithIds :
          /\ FirstBound(i)
          /\ ~SafeTeams(EspnRecord(BoundTo(ncaaTeamsWithIds[i].ncaa_id)), ncaaTeamsWithIds[i])
          /\ SafeTeams(EspnRecord(BoundTo(ncaaTeamsWithIds[i].ncaa_id)), ncaaTeamsWithIds[j])
          /\ \E k \in DOMAIN tmResult.matchedTeams :
                /\ tmResult.matchedTeams[k].espn_id = BoundTo(ncaaTeamsWithIds[i].ncaa_id)
                /\ tmResult.matchedTeams[k].ncaa_id = ncaaTeamsWithIds[i].ncaa_id

\* The pairs the fuzzy stage proposed (an ESPN team with the top result of
\* its search, at a distance below 0.35), and whether one was accepted.
Proposed == PotentialMatches(ncaaFuse, Len(ncaaFuse))
Accepted(match) ==
    \E k \in DOMAIN fuzzyMatchedData :
        fuzzyMatchedData[k] = Merge(match.espnTeam, match.ncaaTeam)

C15_BindingsKept ==
    tmPc = "done" =>
        \A ncaaId \in DOMAIN bindings :
            bindings[ncaaId] # NoId =>
                tmResult.updatedBindings[ncaaId] = bindings[ncaaId]

\* updatedBindings has the entry ncaaId -> espnId
HasEntry(ncaaId, espnId) ==
    /\ ncaaId \in DOMAIN tmResult.updatedBindings
    /\ tmResult.updatedBindings[ncaaId] = espnId

MaxEspnGames == 2
MaxNcaaRows == 3

NoDate == -1

\* null / undefined where a score is expected
NoScore == -1

\* new Date(null) and new Date(0): the instant 0
Epoch == 0

\* 1000 * 60 * 60 * 24 milliseconds, in time units
UnitsPerDay == 2

\* _isMatch: daysDifference > 7
MaxDaysApart == 7
\* _isMatch: daysDifference <= 1.5, in tenths of a day
CloseTenths == 15
\* _processEspnToNcaaBindings: difference < 2.5, in tenths of a day
BindingTenths == 25
\* researchableBindings: b.confidence >= 2 for espn_to_ncaa
EspnToNcaaConfidence == 2
\* researchableBindings: b.confidence >= 1 for ncaa_consolidation
ConsolidationConfidence == 1

Abs(x) == IF x < 0 THEN -x ELSE x
Min(S) == CHOOSE x \in S : \A y \in S : x <= y

RECURSIVE SortedSeq(_)
SortedSeq(S) == IF S = {} THEN <<>> ELSE <<Min(S)>> \o SortedSeq(S \ {Min(S)})

\* A team of the consolidated team data (university is undefined).
Team(id, espn_id, reference_id, short_name, full_name) ==
    [id |-> id, espn_id |-> espn_id, reference_id |-> reference_id,
     short_name |-> short_name, full_name |-> full_name]

\* null / undefined where a team is expected
NoTeam == Team(NoId, NoId, NoId, <<>>, <<>>)

\* null where the name of a venue is expected, and the venue 'Unknown'
NoVenue == ""
V_Unknown == "Unknown"

\* The object _createEspnGameObject returns: a game of the ESPN schedule of a
\* team (reference_id, internal_team_id, home_id and away_id are set later)
EspnGame(espn_id, date_time, home_espn_id, away_espn_id, title, home_score, away_score, winner, venue) ==
    [espn_id |-> espn_id, reference_id |-> NoId, date_time |-> date_time,
     title |-> title, venue |-> venue, home_espn_id |-> home_espn_id, away_espn_id |-> away_espn_id,
     home_score |-> home_score, away_score |-> away_score, winner |-> winner,
     internal_team_id |-> NoId, home_id |-> NoId, away_id |-> NoId]

\* An event of the ESPN schedule API with its competition: score is
\* competitor.score?.value and venue is comp.venue?.fullName
ApiGame(id, date, name, homeTeamId, homeValue, awayTeamId, awayValue, venue) ==
    [id |-> id, date |-> date, name |-> name, venue |-> venue,
     competitors |-> <<[homeAway |-> "home", team |-> homeTeamId, score |-> homeValue],
                       [homeAway |-> "away", team |-> awayTeamId, score |-> awayValue]>>]

\* comp.competitors.find(c => c.homeAway === side)
Competitor(game, side) ==
    game.competitors[CHOOSE i \in DOMAIN game.competitors :
                        /\ game.competitors[i].homeAway = side
                        /\ \A j \in 1..(i - 1) : game.competitors[j].homeAway # side]

\* comp.score?.value || 0
ScoreOrZero(value) == IF value = NoScore THEN 0 ELSE value

\* _createEspnGameObject(game, year), for an event with both competitors
createEspnGameObject(game) ==
    LET homeComp == Competitor(game, "home")
        awayComp == Competitor(game, "away")
        homeScore == ScoreOrZero(homeComp.score)
        awayScore == ScoreOrZero(awayComp.score)
        winner == IF homeScore > awayScore THEN homeComp.team
                  ELSE IF awayScore > homeScore THEN awayComp.team ELSE NoId
    IN  EspnGame(game.id, game.date, homeComp.team, awayComp.team, game.name,
                 homeScore, awayScore, winner, game.venue)

\* _scrapeNcaaTeamSchedule: a row of the schedule page of team home_team_ncaa_id
\* (the scraper sets no home_team_name)
NcaaRow(ncaa_game_id, date, home_team_ncaa_id, opponent_ncaa_id, opponent_name) ==
    [ncaa_game_id |-> ncaa_game_id, date |-> date,
     home_team_ncaa_id |-> home_team_ncaa_id, opponent_ncaa_id |-> opponent_ncaa_id,
     opponent_name |-> opponent_name, home_team_name |-> <<>>]

\* String.prototype.trim
RECURSIVE TrimLeft(_)
TrimLeft(s) == IF s # <<>> /\ Head(s) = " " THEN TrimLeft(Tail(s)) ELSE s

RECURSIVE TrimRight(_)
TrimRight(s) ==
    IF s # <<>> /\ s[Len(s)] = " " THEN TrimRight(SubSeq(s, 1, Len(s) - 1)) ELSE s

trim(s) == TrimRight(TrimLeft(s))

\* a.includes(b)
Includes(a, b) ==
    \E i \in 0..(Len(a) - Len(b)) : SubSeq(a, i + 1, i + Len(b)) = b

Digits == {"0", "1", "2", "3", "4", "5", "6", "7", "8", "9"}

\* the characters /[^\w\s]/ leaves
WordOrSpace == SeqToSet(Lowers) \cup SeqToSet(Uppers) \cup Digits \cup {"_", " "}

IsWordOrSpace(c) == c \in WordOrSpace

\* findTeamByName: const cleanName = (name) =>
\*   name?.toLowerCase().replace(/[^\w\s]/g, '').trim()
findCleanName(name) == trim(SelectSeq(toLowerCase(name), IsWordOrSpace))

\* s.split(/\s+/).filter(word => word.length > 2)
LongWords(s) == SelectSeq(Split(s), LAMBDA w : Len(w) > 2)

\* the words of short_name, full_name and university of a team
TeamWords(team) ==
    LongWords(findCleanName(team.short_name)) \o LongWords(findCleanName(team.full_name))

\* searchWords.filter(word => teamWords.some(...)).length >= Math.min(searchWords.length, 2)
PartialNameMatch(searchWords, teamWords) ==
    Len(SelectSeq(searchWords,
                  LAMBDA word : \E k \in DOMAIN teamWords :
                      Includes(teamWords[k], word) \/ Includes(word, teamWords[k])))
        >= Min({Len(searchWords), 2})

ExactNameMatch(team, searchName) ==
    \/ team.short_name # <<>> /\ findCleanName(team.short_name) = searchName
    \/ team.full_name # <<>> /\ findCleanName(team.full_name) = searchName

FirstExact(teamsData, searchName) ==
    teamsData[Min({i \in DOMAIN teamsData : ExactNameMatch(teamsData[i], searchName)})]

FirstPartial(teamsData, searchWords) ==
    IF \E i \in DOMAIN teamsData : PartialNameMatch(searchWords, TeamWords(teamsData[i]))
    THEN teamsData[Min({i \in DOMAIN teamsData :
                          PartialNameMatch(searchWords, TeamWords(teamsData[i]))})]
    ELSE NoTeam

FindBySearchName(searchName, teamsData) ==
    IF \E i \in DOMAIN teamsData : ExactNameMatch(teamsData[i], searchName)
    THEN FirstExact(teamsData, searchName)
    ELSE FirstPartial(teamsData, LongWords(searchName))

\* findTeamByName(teamName, teamsData)
findTeamByName(teamName, teamsData) ==
    IF teamName = <<>> \/ teamsData = <<>> THEN NoTeam
    ELSE FindBySearchName(findCleanName(teamName), teamsData)

\* title.split(/\s(?:vs|at|@)\s/i) on the words of a title written with single
\* spaces: a separator is a word with a space on both sides, and the space
\* that ends one separator cannot start the next.
TitleSeparators == {<<"v", "s">>, <<"a", "t">>, <<"@">>}

RECURSIVE SplitTitleFrom(_, _, _)
SplitTitleFrom(ws, cur, canSep) ==
    IF ws = <<>> THEN <<Join(cur)>>
    ELSE IF canSep /\ Len(ws) > 1 /\ toLowerCase(Head(ws)) \in TitleSeparators
    THEN <<Join(cur)>> \o SplitTitleFrom(Tail(ws), <<>>, FALSE)
    ELSE SplitTitleFrom(Tail(ws), Append(cur, Head(ws)), TRUE)

SplitTitle(title) == SplitTitleFrom(Split(title), <<>>, FALSE)

\* teamsData.find(t => t.espn_id === espnId)
FindByEspnId(teamsData, espnId) ==
    IF \E i \in DOMAIN teamsData : teamsData[i].espn_id = espnId
    THEN teamsData[Min({i \in DOMAIN teamsData : teamsData[i].espn_id = espnId})]
    ELSE NoTeam

\* teamsData.find(t => t.reference_id === ncaaId)
FindByReferenceId(teamsData, ncaaId) ==
    IF \E i \in DOMAIN teamsData : teamsData[i].reference_id = ncaaId
    THEN teamsData[Min({i \in DOMAIN teamsData : teamsData[i].reference_id = ncaaId})]
    ELSE NoTeam

OrElse(team, other) == IF team # NoTeam THEN team ELSE other

TitleSide(teams, k, teamsData) ==
    IF Len(teams) = 2 THEN findTeamByName(teams[k], teamsData) ELSE NoTeam

\* let homeTeam = teamsData.find(...) || (teams.length === 2 ? findTeamByName(teams[1], teamsData) : null)
HomeTeamOf(game, teamsData) ==
    OrElse(FindByEspnId(teamsData, game.home_espn_id),
           TitleSide(SplitTitle(game.title), 2, teamsData))

\* let awayTeam = teamsData.find(...) || (teams.length === 2 ? findTeamByName(teams[0], teamsData) : null)
AwayTeamOf(game, teamsData) ==
    OrElse(FindByEspnId(teamsData, game.away_espn_id),
           TitleSide(SplitTitle(game.title), 1, teamsData))

\* A faulty limit: no two dates are too far apart.
NeverTooFar(diff) == FALSE

\* Math.abs((espnDate - ncaaDate) / (1000 * 60 * 60 * 24)) > 7, <= 1.5, < 2.5
MoreThanMaxDays(diff) == diff > MaxDaysApart * UnitsPerDay
AtMostClose(diff) == diff * 10 <= CloseTenths * UnitsPerDay
LessThanBinding(diff) == diff * 10 < BindingTenths * UnitsPerDay

\* [homeTeam?.reference_id, awayTeam?.reference_id].filter(Boolean)
availableNcaaIds(homeTeam, awayTeam) ==
    SelectSeq(<<homeTeam.reference_id, awayTeam.reference_id>>, LAMBDA x : x # NoId)

\* _isMatch after its first line: diff is the distance of the two dates
IsMatchIds(diff, ids, homeId, opponentId) ==
    IF MoreThanMaxDays(diff) THEN FALSE
    ELSE IF Len(ids) = 0 THEN FALSE
    ELSE IF AtMostClose(diff)
         THEN homeId \in SeqToSet(ids) \/ opponentId \in SeqToSet(ids)
    ELSE IF Len(ids) = 2
         THEN homeId \in SeqToSet(ids) /\ opponentId \in SeqToSet(ids)
    ELSE homeId \in SeqToSet(ids) \/ opponentId \in SeqToSet(ids)

\* _isMatch(espnDate, ncaaDate, homeTeam, awayTeam, ncaaGame)
isMatch(espnDate, ncaaDate, homeTeam, awayTeam, ncaaGame) ==
    IsMatchIds(Abs(espnDate - ncaaDate), availableNcaaIds(homeTeam, awayTeam),
               ncaaGame.home_team_ncaa_id, ncaaGame.opponent_ncaa_id)

\* _deduplicateGames: const key = game.espn_id || game.reference_id || game.id
\* (game.id is assigned only after the last deduplication, and a generated
\* NCAA game always has a reference_id)
GameKey(game) ==
    IF game.espn_id # NoId THEN game.espn_id ELSE game.reference_id

\* games[key] = game: the last game with the key stays
LastWithKey(games, key) ==
    games[CHOOSE i \in DOMAIN games :
            /\ GameKey(games[i]) = key
            /\ \A j \in DOMAIN games : j > i => GameKey(games[j]) # key]

\* Object.values lists integer keys in ascending order and the sort is stable
GameBefore(a, b) ==
    \/ a.date_time < b.date_time
    \/ a.date_time = b.date_time /\ GameKey(a) < GameKey(b)

RECURSIVE SortGames(_)
SortGames(S) ==
    IF S = {} THEN <<>>
    ELSE LET first == CHOOSE x \in S : \A y \in S \ {x} : GameBefore(x, y)
         IN  <<first>> \o SortGames(S \ {first})

\* A faulty deduplication: every game is kept.
KeepAllGames(games) == games

\* _deduplicateGames(allGames)
deduplicateGames(games) ==
    SortGames({LastWithKey(games, key) :
                 key \in {GameKey(games[i]) : i \in DOMAIN games} \ {NoId}})

\* _analyzeEspnCache: [...new Set(teamsData.flatMap(team => team.espn_id || []))]
FirstOfEspnId(teamsData, i) ==
    /\ teamsData[i].espn_id # NoId
    /\ \A j \in 1..(i - 1) : teamsData[j].espn_id # teamsData[i].espn_id

uniqueEspnIds(teamsData) ==
    LET idx == SelectSeq([i \in DOMAIN teamsData |-> i],
                         LAMBDA i : FirstOfEspnId(teamsData, i))
    IN  [k \in DOMAIN idx |-> teamsData[idx[k]].espn_id]

\* teamData.games.map(game => ({ ...game, internal_team_id: team.id }))
TagGames(games, team) ==
    [k \in DOMAIN games |-> [games[k] EXCEPT !.internal_team_id = team.id]]

CachedGames(cache, key) == IF key \in DOMAIN cache THEN cache[key] ELSE <<>>

\* _processAllEspnGames, every schedule being cached
processAllEspnGames(ids, teamsData, cache) ==
    Flatten([k \in DOMAIN ids |->
                TagGames(CachedGames(cache, ids[k]), FindByEspnId(teamsData, ids[k]))])

\* initialTeamsData.filter(team => team.espn_id && team.reference_id)
matchableTeams(teamsData) ==
    SelectSeq(teamsData, LAMBDA team : team.espn_id # NoId /\ team.reference_id # NoId)

\* getCacheEntryByCanonicalId, as the games of the entry (none when null)
FirstKeyOf(cache, canonicalId, sport) ==
    IF \E key \in DOMAIN cache : getCanonicalNcaaId(key, sport) = canonicalId
    THEN cache[Min({key \in DOMAIN cache : getCanonicalNcaaId(key, sport) = canonicalId})]
    ELSE <<>>

CacheEntryOf(cache, canonicalId, sport) ==
    IF canonicalId \in DOMAIN cache THEN cache[canonicalId]
    ELSE FirstKeyOf(cache, canonicalId, sport)

getCacheEntryByCanonicalId(cache, ncaaId, sport) ==
    IF ncaaId = NoId THEN <<>>
    ELSE CacheEntryOf(cache, getCanonicalNcaaId(ncaaId, sport), sport)

\* ncaaDate.toISOString().split('T')[0]
DateKey(date) == date \div UnitsPerDay

\* sameDayNcaaGames.find(ncaaGame => !matchedNcaaGameIds.has(ncaaGame.ncaa_game_id) ...)
SameDayRows(ncaaGames, dateKey, matchedNcaaGameIds) ==
    {j \in DOMAIN ncaaGames :
        /\ ncaaGames[j].ncaa_game_id # NoId
        /\ ncaaGames[j].date # NoDate
        /\ DateKey(ncaaGames[j].date) = dateKey
        /\ ncaaGames[j].ncaa_game_id \notin matchedNcaaGameIds}

AvailableGame(ncaaGames, rows) ==
    IF rows = {} THEN NoId ELSE ncaaGames[Min(rows)].ncaa_game_id

\* _matchTeamGames: espnGames.forEach(...), from game i on
RECURSIVE MatchTeamFrom(_, _, _, _, _)
TakeAvailable(espnGames, i, ncaaGames, team, matchedNcaaGameIds, available) ==
    IF available = NoId
    THEN MatchTeamFrom(espnGames, i + 1, ncaaGames, team, matchedNcaaGameIds)
    ELSE MatchTeamFrom([espnGames EXCEPT ![i].reference_id = available], i + 1,
                       ncaaGames, team, matchedNcaaGameIds \cup {available})

MatchTeamFrom(espnGames, i, ncaaGames, team, matchedNcaaGameIds) ==
    IF i > Len(espnGames) THEN espnGames
    ELSE IF espnGames[i].reference_id # NoId \/ espnGames[i].internal_team_id # team.id
    THEN MatchTeamFrom(espnGames, i + 1, ncaaGames, team, matchedNcaaGameIds)
    ELSE TakeAvailable(espnGames, i, ncaaGames, team, matchedNcaaGameIds,
                       AvailableGame(ncaaGames,
                                     SameDayRows(ncaaGames, DateKey(espnGames[i].date_time),
                                                 matchedNcaaGameIds)))

\* _matchTeamGames(teamEspnGames, ncaaGames, team) on the games of allGames
\* (teamEspnGames are the games of allGames with internal_team_id = team.id)
matchTeamGames(espnGames, ncaaGames, team) ==
    IF ~(\E i \in DOMAIN espnGames : espnGames[i].internal_team_id = team.id)
          \/ ncaaGames = <<>>
    THEN espnGames
    ELSE MatchTeamFrom(espnGames, 1, ncaaGames, team, {})

\* for (const team of matchableTeams) { ... _matchTeamGames(...) }
RECURSIVE TeamLoop(_, _, _, _)
TeamLoop(games, teams, k, cache) ==
    IF k > Len(teams) THEN games
    ELSE TeamLoop(matchTeamGames(games,
                                 getCacheEntryByCanonicalId(cache, teams[k].reference_id,
                                                            "football"),
                                 teams[k]),
                  teams, k + 1, cache)

\* Object.values(cache), Object.entries(cache): integer keys in ascending order
CacheKeys(cache) == SortedSeq(DOMAIN cache)

\* Object.values(ncaaSchedulesCache).flatMap(cache => cache.games)
AllNcaaGames(cache) ==
    Flatten([k \in DOMAIN CacheKeys(cache) |-> cache[CacheKeys(cache)[k]]])

FirstRowWithId(rows, id) ==
    rows[Min({i \in DOMAIN rows : rows[i].ncaa_game_id = id})]

\* _matchEspnWithNcaaGames: const ncaaGames, one game per ncaa_game_id (the
\* first), listed by Object.values in ascending id order
NcaaGamesById(rows) ==
    LET ids == SortedSeq({rows[i].ncaa_game_id : i \in DOMAIN rows} \ {NoId})
    IN  [k \in DOMAIN ids |-> FirstRowWithId(rows, ids[k])]

\* ncaaGames.find(ncaaGame => ...) of _matchEspnWithNcaaGames
FallbackRows(ncaaGames, espnGame, homeTeam, awayTeam, matchedNcaaGameIds) ==
    {j \in DOMAIN ncaaGames :
        /\ ncaaGames[j].ncaa_game_id # NoId
        /\ ncaaGames[j].date # NoDate
        /\ ncaaGames[j].ncaa_game_id \notin matchedNcaaGameIds
        /\ isMatch(espnGame.date_time, ncaaGames[j].date, homeTeam, awayTeam, ncaaGames[j])}

\* completedEspnGames.forEach(...), from game i on
RECURSIVE FallbackFrom(_, _, _, _, _, _)
TakeMatch(espnGames, i, ncaaGames, teamsData, clock, matchedNcaaGameIds, ncaaMatch) ==
    IF ncaaMatch = NoId
    THEN FallbackFrom(espnGames, i + 1, ncaaGames, teamsData, clock, matchedNcaaGameIds)
    ELSE FallbackFrom([espnGames EXCEPT ![i].reference_id = ncaaMatch], i + 1,
                      ncaaGames, teamsData, clock, matchedNcaaGameIds \cup {ncaaMatch})

FallbackFrom(espnGames, i, ncaaGames, teamsData, clock, matchedNcaaGameIds) ==
    IF i > Len(espnGames) THEN espnGames
    ELSE IF ~(espnGames[i].date_time < clock) \/ espnGames[i].reference_id # NoId
    THEN FallbackFrom(espnGames, i + 1, ncaaGames, teamsData, clock, matchedNcaaGameIds)
    ELSE TakeMatch(espnGames, i, ncaaGames, teamsData, clock, matchedNcaaGameIds,
                   AvailableGame(ncaaGames,
                                 FallbackRows(ncaaGames, espnGames[i],
                                              HomeTeamOf(espnGames[i], teamsData),
                                              AwayTeamOf(espnGames[i], teamsData),
                                              matchedNcaaGameIds)))

\* if (homeTeam) game.home_id = homeTeam.id; if (awayTeam) game.away_id = awayTeam.id;
\* if (game.winner) the ESPN id of the winner becomes the id of its team
SetTeamIds(game, homeTeam, awayTeam) ==
    [game EXCEPT !.home_id = IF homeTeam # NoTeam THEN homeTeam.id ELSE @,
                 !.away_id = IF awayTeam # NoTeam THEN awayTeam.id ELSE @,
                 !.winner = IF @ = NoId THEN @
                            ELSE IF @ = game.home_espn_id THEN homeTeam.id
                            ELSE IF @ = game.away_espn_id THEN awayTeam.id ELSE @]

\* _matchEspnWithNcaaGames(espnGames, ncaaSchedulesCache, teamsData, yearsToScrape, verbose)
SetAllTeamIds(espnGames, teamsData) ==
    [k \in DOMAIN espnGames |->
        SetTeamIds(espnGames[k], HomeTeamOf(espnGames[k], teamsData),
                   AwayTeamOf(espnGames[k], teamsData))]

matchEspnWithNcaaGames(espnGames, cache, teamsData, clock) ==
    SetAllTeamIds(FallbackFrom(espnGames, 1, NcaaGamesById(AllNcaaGames(cache)),
                               teamsData, clock, {}),
                  teamsData)

\* An entry of potentialBindingsMap.  An espn_to_ncaa candidate uses espn_id
\* and ncaa_id, an ncaa_consolidation candidate source_ncaa_id and
\* target_ncaa_id; a field a candidate does not have is NoId / FALSE.
EspnToNcaaBinding(espn_id, ncaa_id, espn_game_id, ncaa_game_id, already_bound) ==
    [type |-> "espn_to_ncaa", espn_id |-> espn_id, ncaa_id |-> ncaa_id,
     source_ncaa_id |-> NoId, target_ncaa_id |-> NoId,
     evidence_games |-> <<[espn_game_id |-> espn_game_id, ncaa_game_id |-> ncaa_game_id]>>,
     confidence |-> 1, already_bound |-> already_bound]

ConsolidationBinding(source_ncaa_id, target_ncaa_id, ncaa_game_id) ==
    [type |-> "ncaa_consolidation", espn_id |-> NoId, ncaa_id |-> NoId,
     source_ncaa_id |-> source_ncaa_id, target_ncaa_id |-> target_ncaa_id,
     evidence_games |-> <<[espn_game_id |-> NoId, ncaa_game_id |-> ncaa_game_id]>>,
     confidence |-> 1, already_bound |-> FALSE]

\* the bindingKey strings `espn-${..}-${..}` and `ncaa-consolidation-${..}-${..}`
SameBindingKey(a, b) ==
    /\ a.type = b.type
    /\ a.espn_id = b.espn_id /\ a.ncaa_id = b.ncaa_id
    /\ a.source_ncaa_id = b.source_ncaa_id /\ a.target_ncaa_id = b.target_ncaa_id

\* potentialBindingsMap.get(bindingKey) || {...}; evidence_games.push(...);
\* confidence = evidence_games.length; potentialBindingsMap.set(bindingKey, ...)
\* where found is a candidate with its first evidence game
AddEvidence(bindingsMap, found) ==
    IF \E i \in DOMAIN bindingsMap : SameBindingKey(bindingsMap[i], found)
    THEN [i \in DOMAIN bindingsMap |->
            IF SameBindingKey(bindingsMap[i], found)
            THEN [bindingsMap[i] EXCEPT
                    !.evidence_games = Append(@, found.evidence_games[1]),
                    !.confidence = Len(bindingsMap[i].evidence_games) + 1,
                    !.already_bound = found.already_bound]
            ELSE bindingsMap[i]]
    ELSE Append(bindingsMap, found)

RECURSIVE AddAllEvidence(_, _)
AddAllEvidence(bindingsMap, found) ==
    IF found = <<>> THEN bindingsMap
    ELSE AddAllEvidence(AddEvidence(bindingsMap, Head(found)), Tail(found))

\* const opponentNcaaId = ncaaGame.home_team_ncaa_id === boundTeam.reference_id ? ...
OpponentNcaaId(ncaaGame, boundTeam) ==
    IF ncaaGame.home_team_ncaa_id = boundTeam.reference_id
    THEN ncaaGame.opponent_ncaa_id ELSE ncaaGame.home_team_ncaa_id

\* const matchingNcaaGames = allNcaaGames.filter(...), those with an opponent id
MatchingNcaaGames(espnGame, boundTeam, allNcaaGames) ==
    SelectSeq(allNcaaGames,
              LAMBDA ncaaGame :
                  /\ ncaaGame.date # NoDate
                  /\ \/ ncaaGame.home_team_ncaa_id = boundTeam.reference_id
                     \/ ncaaGame.opponent_ncaa_id = boundTeam.reference_id
                  /\ LessThanBinding(Abs(espnGame.date_time - ncaaGame.date))
                  /\ OpponentNcaaId(ncaaGame, boundTeam) # NoId)

\* matchingNcaaGames.forEach(...): the evidence one ESPN game contributes
BoundEvidence(espnGame, boundTeam, unboundEspnId, matching, teamsData) ==
    [k \in DOMAIN matching |->
        EspnToNcaaBinding(unboundEspnId, OpponentNcaaId(matching[k], boundTeam),
                          espnGame.espn_id, matching[k].ncaa_game_id,
                          FindByReferenceId(teamsData,
                                            OpponentNcaaId(matching[k], boundTeam)) # NoTeam)]

UnboundEvidence(espnGame, homeTeam, awayTeam, allNcaaGames, teamsData) ==
    IF homeTeam = NoTeam /\ awayTeam.reference_id # NoId
    THEN BoundEvidence(espnGame, awayTeam, espnGame.home_espn_id,
                       MatchingNcaaGames(espnGame, awayTeam, allNcaaGames), teamsData)
    ELSE IF awayTeam = NoTeam /\ homeTeam.reference_id # NoId
    THEN BoundEvidence(espnGame, homeTeam, espnGame.away_espn_id,
                       MatchingNcaaGames(espnGame, homeTeam, allNcaaGames), teamsData)
    ELSE <<>>

GameEvidence(espnGame, allNcaaGames, teamsData) ==
    IF espnGame.date_time = NoDate \/ espnGame.reference_id # NoId THEN <<>>
    ELSE UnboundEvidence(espnGame,
                         FindByEspnId(teamsData, espnGame.home_espn_id),
                         FindByEspnId(teamsData, espnGame.away_espn_id),
                         allNcaaGames, teamsData)

\* _processEspnToNcaaBindings(espnGames, allNcaaGames, teamsData, potentialBindingsMap)
processEspnToNcaaBindings(espnGames, allNcaaGames, teamsData, bindingsMap) ==
    AddAllEvidence(bindingsMap,
                   Flatten([i \in DOMAIN espnGames |->
                               GameEvidence(espnGames[i], allNcaaGames, teamsData)]))

\* _createTeamsNameMap(teamsData).get(name): the last team one of whose names,
\* lower-cased and trimmed, is name
HasName(team, name) ==
    \/ team.short_name # <<>> /\ trim(toLowerCase(team.short_name)) = name
    \/ team.full_name # <<>> /\ trim(toLowerCase(team.full_name)) = name

teamsByName(teamsData, name) ==
    IF \E i \in DOMAIN teamsData : HasName(teamsData[i], name)
    THEN teamsData[CHOOSE i \in DOMAIN teamsData :
                      /\ HasName(teamsData[i], name)
                      /\ \A j \in DOMAIN teamsData : j > i => ~HasName(teamsData[j], name)]
    ELSE NoTeam

ConsolidationFor(missingNcaaId, potentialMatch, ncaaGame) ==
    IF potentialMatch # NoTeam /\ potentialMatch.reference_id # missingNcaaId
    THEN <<ConsolidationBinding(missingNcaaId, potentialMatch.reference_id,
                                ncaaGame.ncaa_game_id)>>
    ELSE <<>>

\* processPotentialConsolidation(foundTeam, missingNcaaId, missingTeamName, ncaaGame)
processPotentialConsolidation(foundTeam, missingNcaaId, missingTeamName, ncaaGame, teamsData) ==
    IF foundTeam = NoTeam \/ missingNcaaId = NoId \/ missingTeamName = <<>> THEN <<>>
    ELSE IF getCanonicalNcaaId(missingNcaaId, "football") # missingNcaaId THEN <<>>
    ELSE ConsolidationFor(missingNcaaId,
                          teamsByName(teamsData, trim(toLowerCase(missingTeamName))),
                          ncaaGame)

MissingSide(ncaaGame, homeTeam, awayTeam, teamsData) ==
    (IF homeTeam = NoTeam /\ awayTeam # NoTeam /\ ncaaGame.home_team_name # <<>>
     THEN processPotentialConsolidation(awayTeam, ncaaGame.home_team_ncaa_id,
                                        ncaaGame.home_team_name, ncaaGame, teamsData)
     ELSE <<>>)
    \o
    (IF homeTeam # NoTeam /\ awayTeam = NoTeam /\ ncaaGame.opponent_name # <<>>
     THEN processPotentialConsolidation(homeTeam, ncaaGame.opponent_ncaa_id,
                                        ncaaGame.opponent_name, ncaaGame, teamsData)
     ELSE <<>>)

RowConsolidations(ncaaGame, teamsData) ==
    IF ncaaGame.home_team_ncaa_id = NoId \/ ncaaGame.opponent_ncaa_id = NoId THEN <<>>
    ELSE MissingSide(ncaaGame,
                     FindByReferenceId(teamsData, ncaaGame.home_team_ncaa_id),
                     FindByReferenceId(teamsData, ncaaGame.opponent_ncaa_id),
                     teamsData)

\* _processNcaaConsolidations(allNcaaGames, teamsData, potentialBindingsMap)
processNcaaConsolidations(allNcaaGames, teamsData, bindingsMap) ==
    AddAllEvidence(bindingsMap,
                   Flatten([i \in DOMAIN allNcaaGames |->
                               RowConsolidations(allNcaaGames[i], teamsData)]))

\* deducePotentialBindings(espnGames, ncaaSchedulesCache, teamsData, yearsToScrape)
deducePotentialBindings(espnGames, cache, teamsData) ==
    processNcaaConsolidations(
        AllNcaaGames(cache), teamsData,
        processEspnToNcaaBindings(espnGames, AllNcaaGames(cache), teamsData, <<>>))

\* A filter that takes every candidate.
AnyCandidate(b) == TRUE

\* the predicate of potentialBindings.filter(b => ...) (a confidence is a number)
IsResearchable(b) ==
    IF b.type = "espn_to_ncaa"
    THEN ~b.already_bound /\ b.confidence >= EspnToNcaaConfidence
    ELSE IF b.type = "ncaa_consolidation"
    THEN b.confidence >= ConsolidationConfidence
    ELSE ~b.already_bound /\ b.confidence >= 2

N_Unknown == <<"U", "n", "k", "n", "o", "w", "n">>

\* s.replace(/^@\s*/, '')
RemoveLeadingAt(s) == IF s # <<>> /\ Head(s) = "@" THEN TrimLeft(Tail(s)) ELSE s

\* t matches ,\s*[A-Z]{2} from its first to its last character
IsStateSuffix(t) ==
    /\ Len(t) >= 3
    /\ t[1] = ","
    /\ t[Len(t) - 1] \in SeqToSet(Uppers) /\ t[Len(t)] \in SeqToSet(Uppers)
    /\ \A i \in 2..(Len(t) - 2) : t[i] = " "

\* t matches [^,]+(?:,\s*[A-Z]{2})?$ from its first character
IsLocationTail(t) ==
    \E n \in 1..Len(t) :
        /\ \A i \in 1..n : t[i] # ","
        /\ n = Len(t) \/ IsStateSuffix(SubSeq(t, n + 1, Len(t)))

\* /\s+@[^,]+(?:,\s*[A-Z]{2})?$/ matches s from position i
LocationAt(s, i) ==
    /\ s[i] = " "
    /\ \E j \in (i + 1)..Len(s) :
          /\ \A k \in i..(j - 1) : s[k] = " "
          /\ s[j] = "@"
          /\ IsLocationTail(SubSeq(s, j + 1, Len(s)))

\* s.replace(/\s+@[^,]+(?:,\s*[A-Z]{2})?$/, ''): the leftmost match is removed
RemoveLocation(s) ==
    IF \E i \in DOMAIN s : LocationAt(s, i)
    THEN SubSeq(s, 1, Min({i \in DOMAIN s : LocationAt(s, i)}) - 1)
    ELSE s

OrUnknown(name) == IF name = <<>> THEN N_Unknown ELSE name

\* _cleanNcaaOpponentName(opponentName)
cleanNcaaOpponentName(opponentName) ==
    IF opponentName = <<>> THEN N_Unknown
    ELSE CHOOSE cleaned \in
             {OrUnknown(name) :
                  name \in {trim(noLocation) :
                      noLocation \in {RemoveLocation(noAt) :
                          noAt \in {RemoveLeadingAt(trim(opponentName))}}}} : TRUE

\* the object _generateNcaaGameObjects pushes for a row (date_time is
\* gameDate?.toISOString() || null; the rows carry no score text, for which
\* _parseNcaaScore returns null scores and no winner; home is also
\* home_team_name and away also away_team_name)
NcaaGameObject(game, actualHomeTeam, actualAwayTeam, inferredVenue) ==
    [espn_id |-> NoId, reference_id |-> game.ncaa_game_id, date_time |-> game.date,
     title |-> <<>>, venue |-> inferredVenue,
     home_espn_id |-> actualHomeTeam.espn_id, away_espn_id |-> actualAwayTeam.espn_id,
     home_score |-> NoScore, away_score |-> NoScore, winner |-> NoId,
     internal_team_id |-> actualHomeTeam.id,
     home_id |-> actualHomeTeam.id, away_id |-> actualAwayTeam.id,
     home |-> OrUnknown(actualHomeTeam.short_name),
     away |-> IF actualAwayTeam.short_name # <<>> THEN actualAwayTeam.short_name
              ELSE cleanNcaaOpponentName(game.opponent_name)]

\* game.opponent_name && game.opponent_name.trim().startsWith('@')
IsAwayGame(game) ==
    /\ game.opponent_name # <<>>
    /\ trim(game.opponent_name) # <<>>
    /\ Head(trim(game.opponent_name)) = "@"

\* homeVenues: the venues of the games homeTeamId is the home team of
HomeVenues(homeTeamId, allEspnGames) ==
    LET games == SelectSeq(allEspnGames,
                           LAMBDA g : g.home_id = homeTeamId /\ g.venue # NoVenue)
    IN  [k \in DOMAIN games |-> games[k].venue]

\* venueCounts[venue]
VenueCount(homeVenues, venue) ==
    Cardinality({k \in DOMAIN homeVenues : homeVenues[k] = venue})

\* _inferVenueFromHomeGames(homeTeamId, allEspnGames): the sort is stable, so
\* among the most common venues the one seen first is returned
inferVenueFromHomeGames(homeTeamId, allEspnGames) ==
    LET homeVenues == HomeVenues(homeTeamId, allEspnGames)
    IN  IF homeTeamId = NoId \/ Len(homeVenues) = 0 THEN NoVenue
        ELSE homeVenues[Min({k \in DOMAIN homeVenues :
                                \A j \in DOMAIN homeVenues :
                                    VenueCount(homeVenues, homeVenues[j])
                                        <= VenueCount(homeVenues, homeVenues[k])})]

\* const inferredVenue = actualHomeTeam ? _inferVenueFromHomeGames(...) : ...
InferredVenue(isAwayGame, actualHomeTeam, homeTeam, allEspnGames) ==
    IF actualHomeTeam # NoTeam THEN inferVenueFromHomeGames(actualHomeTeam.id, allEspnGames)
    ELSE IF isAwayGame THEN V_Unknown
    ELSE IF homeTeam # NoTeam THEN inferVenueFromHomeGames(homeTeam.id, allEspnGames)
    ELSE NoVenue

HomeOrAway(game, homeTeam, opponentTeam, allEspnGames) ==
    IF IsAwayGame(game)
    THEN NcaaGameObject(game, opponentTeam, homeTeam,
                        InferredVenue(TRUE, opponentTeam, homeTeam, allEspnGames))
    ELSE NcaaGameObject(game, homeTeam, opponentTeam,
                        InferredVenue(FALSE, homeTeam, homeTeam, allEspnGames))

RowGameObject(teamNcaaId, game, teamsData, allEspnGames) ==
    CHOOSE object \in
        {HomeOrAway(game, homeTeam, opponentTeam, allEspnGames) :
             homeTeam \in {FindByReferenceId(teamsData,
                                             getCanonicalNcaaId(teamNcaaId, "football"))},
             opponentTeam \in {IF game.opponent_ncaa_id # NoId
                               THEN FindByReferenceId(
                                        teamsData,
                                        getCanonicalNcaaId(game.opponent_ncaa_id, "football"))
                               ELSE NoTeam}} : TRUE

\* the rows of the cache with the key they are stored under, in Object.entries order
CacheRows(cache) ==
    Flatten([k \in DOMAIN CacheKeys(cache) |->
                [j \in DOMAIN cache[CacheKeys(cache)[k]] |->
                    <<CacheKeys(cache)[k], cache[CacheKeys(cache)[k]][j]>>]])

\* if (processedGameIds.has(game.ncaa_game_id)) return
FirstOfGameId(rows, i) ==
    /\ rows[i][2].ncaa_game_id # NoId
    /\ \A j \in 1..(i - 1) : rows[j][2].ncaa_game_id # rows[i][2].ncaa_game_id

GenerateFrom(rows, idx, teamsData, allEspnGames) ==
    [k \in DOMAIN idx |->
        RowGameObject(rows[idx[k]][1], rows[idx[k]][2], teamsData, allEspnGames)]

\* _generateNcaaGameObjects(ncaaCache, teamsData, yearsToScrape, allEspnGames)
generateNcaaGameObjects(cache, teamsData, allEspnGames) ==
    GenerateFrom(CacheRows(cache),
                 SelectSeq([i \in DOMAIN CacheRows(cache) |-> i],
                           LAMBDA i : FirstOfGameId(CacheRows(cache), i)),
                 teamsData, allEspnGames)

\* ncaaGames.filter(g => g.reference_id && !existingEspnGameIds.has(g.reference_id))
uniqueNcaaGames(ncaaGames, espnGames) ==
    SelectSeq(ncaaGames,
              LAMBDA g : /\ g.reference_id # NoId
                         /\ \A i \in DOMAIN espnGames :
                               espnGames[i].reference_id # g.reference_id)

\* new Date(game.date_time): null converts to the number 0
NewDate(date_time) == IF date_time = NoDate THEN Epoch ELSE date_time

\* the object finalGames.map builds ("required schema format"); date is
\* gameDate.toISOString().split('T')[0]
TransformedGame(game) ==
    [espn_id |-> game.espn_id, reference_id |-> game.reference_id,
     date_time |-> game.date_time, date |-> DateKey(NewDate(game.date_time)),
     title |-> game.title, venue |-> game.venue, home_id |-> game.home_id, away_id |-> game.away_id,
     winner_id |-> game.winner]

transformedGames(finalGames) ==
    [k \in DOMAIN finalGames |-> TransformedGame(finalGames[k])]

\* otherGame.home_id && otherGame.away_id (an id is never the string 'Unknown')
HasBothIds(game) == game.home_id # NoId /\ game.away_id # NoId

\* the body of for (const otherGame of matchingGames) for a complete otherGame
InferFromGame(game, otherGame) ==
    IF game.home_id = NoId /\ game.away_id # NoId
    THEN IF otherGame.away_id = game.away_id
         THEN [game EXCEPT !.home_id = otherGame.home_id]
         ELSE IF otherGame.home_id = game.away_id
         THEN [game EXCEPT !.home_id = otherGame.away_id]
         ELSE game
    ELSE IF game.home_id # NoId /\ game.away_id = NoId
    THEN IF otherGame.home_id = game.home_id
         THEN [game EXCEPT !.away_id = otherGame.away_id]
         ELSE IF otherGame.away_id = game.home_id
         THEN [game EXCEPT !.away_id = otherGame.home_id]
         ELSE game
    ELSE [game EXCEPT !.home_id = otherGame.home_id, !.away_id = otherGame.away_id]

\* the second pass for games[i]: the first complete game among the other
\* games of its reference_id is used
InferOne(games, i) ==
    LET others == {j \in DOMAIN games :
                      /\ j # i
                      /\ games[j].reference_id = games[i].reference_id
                      /\ HasBothIds(games[j])}
    IN  IF HasBothIds(games[i]) \/ games[i].reference_id = NoId \/ others = {}
        THEN games
        ELSE [games EXCEPT ![i] = InferFromGame(games[i], games[Min(others)])]

RECURSIVE InferFrom(_, _)
InferFrom(games, i) ==
    IF i > Len(games) THEN games ELSE InferFrom(InferOne(games, i), i + 1)

\* _inferMissingTeamIds(games)
inferMissingTeamIds(games) == InferFrom(games, 1)

\* let inferredVenue = game.venue; if (!hasHomeId) ... else if (!inferredVenue && hasHomeId) ...
IncompleteVenue(game, allEspnGames) ==
    IF game.home_id = NoId THEN V_Unknown
    ELSE IF game.venue # NoVenue THEN game.venue
    ELSE IF inferVenueFromHomeGames(game.home_id, allEspnGames) # NoVenue
    THEN inferVenueFromHomeGames(game.home_id, allEspnGames)
    ELSE V_Unknown

\* _createIncompleteGame(game, allEspnGames, teamsData): the object returned
createIncompleteGame(game, allEspnGames) ==
    [espn_id |-> game.espn_id, reference_id |-> game.reference_id,
     date_time |-> game.date_time, date |-> DateKey(NewDate(game.date_time)),
     title |-> game.title, venue |-> IncompleteVenue(game, allEspnGames), home_id |-> game.home_id, away_id |-> game.away_id,
     winner_id |-> game.winner_id]

\* A faulty last step: the games with a missing team id are filtered out.
DropIncomplete(games, allEspnGames) == SelectSeq(games, HasBothIds)

\* gamesWithInferredIds.forEach: a complete game is pushed as it is, an
\* incomplete one as its _createIncompleteGame
allProcessedGames(games, allEspnGames) ==
    [k \in DOMAIN games |->
        IF HasBothIds(games[k]) THEN games[k]
        ELSE createIncompleteGame(games[k], allEspnGames)]

\* The teams: Towson and Akron have both ids, Miami has no NCAA id; ESPN
\* team 4 (Kent State) is not in the team data, NCAA id 4 is its NCAA id and
\* NCAA id 3 is a second id of another school.
T_Towson == Team(1, 1, 1, N_Towson, N_TowsonTigers)
T_Akron == Team(2, 2, 2, N_Akron, N_UniversityOfAkron)
T_Miami == Team(3, 3, NoId, N_Miami, N_Miami)

TeamsPool == {<<T_Towson, T_Akron>>, <<T_Towson, T_Akron, T_Miami>>}

S_at == <<" ", "a", "t", " ">>
\* the place of a game on neutral ground, as the schedule page writes it
S_atCleveland == <<" ", "@", " ", "C", "l", "e", "v", "e", "l", "a", "n", "d", ",", " ", "O", "H">>

\* ESPN games: id, date, name, home team and score value, away team and
\* score value, venue; games 11, 13 and 15 were played, game 14 ended 0-0 at
\* the time of the download and game 12 has no score values; the home team
\* of game 15 is not in the team data
ApiGamePool ==
    <<ApiGame(11, 4, N_Akron \o S_at \o N_Towson, 1, 3, 2, 1, "Unitas Stadium"),
      ApiGame(12, 18, N_KentState \o S_at \o N_Akron, 2, NoScore, 4, NoScore, NoVenue),
      ApiGame(13, 5, N_KentState \o S_at \o N_Towson, 1, 1, 4, 2, NoVenue),
      ApiGame(14, 4, N_Miami \o S_at \o N_Akron, 2, 0, 3, 0, "InfoCision Stadium"),
      ApiGame(15, 25, N_Akron \o S_at \o N_KentState, 4, 2, 2, 1, "Dix Stadium")>>

\* the games as the schedule download stored them in the cache
EspnGamePool == [k \in DOMAIN ApiGamePool |-> createEspnGameObject(ApiGamePool[k])]

\* NCAA schedule rows with the cache key they are stored under:
\* ncaa_game_id, date, home_team_ncaa_id, opponent_ncaa_id, opponent_name
\* (the date of row 27 is a text _parseNcaaDate returns null for)
NcaaRowPool ==
    <<[key |-> 1, row |-> NcaaRow(21, 4, 1, 2, N_Akron)],
      [key |-> 2, row |-> NcaaRow(21, 4, 2, 1, <<"@", " ">> \o N_Towson)],
      [key |-> 3, row |-> NcaaRow(23, 16, 3, 4, N_KentSt)],
      [key |-> 2, row |-> NcaaRow(24, 16, 2, 4, N_KentSt)],
      [key |-> 1, row |-> NcaaRow(25, 2, 1, 4, N_KentSt)],
      [key |-> 2, row |-> NcaaRow(26, 30, 2, 3, N_Towson)],
      [key |-> 1, row |-> NcaaRow(27, NoDate, 1, 2, N_Akron)],
      [key |-> 3, row |-> NcaaRow(28, 8, 3, 4, <<"@", " ">> \o N_KentSt)],
      [key |-> 1, row |-> NcaaRow(29, 10, 1, 4, N_KentSt \o S_atCleveland)]>>

\* The consolidation map of the run: empty, or NCAA id 3 consolidated into 2.
MapPool ==
    {[s \in Sports |-> EmptySportMap],
     [s \in Sports |-> IF s = "football" THEN [EmptySportMap EXCEPT ![3] = 2]
                       ELSE EmptySportMap]}

NowValues == {12, 40}

\* the elements of pool at the positions of S, in the order of the pool
Pick(pool, S) ==
    LET idx == SelectSeq([i \in DOMAIN pool |-> i], LAMBDA i : i \in S)
    IN  [k \in DOMAIN idx |-> pool[idx[k]]]

\* the schedule cache of every team of the games: a game is on the schedule
\* of its home team and of its away team
EspnCacheOf(games) ==
    [e \in {games[i].home_espn_id : i \in DOMAIN games}
             \cup {games[i].away_espn_id : i \in DOMAIN games} |->
        SelectSeq(games, LAMBDA g : g.home_espn_id = e \/ g.away_espn_id = e)]

RowsOfKey(entries, key) ==
    LET mine == SelectSeq(entries, LAMBDA x : x.key = key)
    IN  [k \in DOMAIN mine |-> mine[k].row]

NcaaCacheOf(entries) ==
    [key \in {entries[i].key : i \in DOMAIN entries} |-> RowsOfKey(entries, key)]

GmLocalsEmpty ==
    /\ allGames = <<>>
    /\ unmatchedGames = <<>>
    /\ potentialBindings = <<>>
    /\ researchableBindings = <<>>
    /\ validGames = <<>>

GmInit ==
    /\ gmPc = "load"
    /\ initialTeamsData \in TeamsPool
    /\ \E S \in SUBSET DOMAIN EspnGamePool :
          /\ Cardinality(S) <= MaxEspnGames
          /\ espnCache = EspnCacheOf(Pick(EspnGamePool, S))
    /\ \E S \in SUBSET DOMAIN NcaaRowPool :
          /\ Cardinality(S) <= MaxNcaaRows
          /\ ncaaCache = NcaaCacheOf(Pick(NcaaRowPool, S))
    /\ verbose \in BOOLEAN
    /\ now \in NowValues
    /\ GmLocalsEmpty

gmInputs == <<initialTeamsData, espnCache, ncaaCache, verbose, now>>

\* let allGames = [...allEspnGames]; allGames = _deduplicateGames(allGames)
LoadGames ==
    /\ gmPc = "load"
    /\ allGames' = deduplicateGames(
                       processAllEspnGames(uniqueEspnIds(initialTeamsData),
                                           initialTeamsData, espnCache))
    /\ gmPc' = "teams"
    /\ UNCHANGED <<gmInputs, unmatchedGames, potentialBindings, researchableBindings,
                   validGames>>
    /\ UNCHANGED notGm

\* the team-by-team loop and const unmatchedGames
TeamByTeamMatching ==
    /\ gmPc = "teams"
    /\ \E matched \in {TeamLoop(allGames, matchableTeams(initialTeamsData), 1, ncaaCache)} :
          /\ allGames' = matched
          /\ unmatchedGames' = SelectSeq(matched, LAMBDA g : g.reference_id = NoId)
    /\ gmPc' = "fallback"
    /\ UNCHANGED <<gmInputs, potentialBindings, researchableBindings, validGames>>
    /\ UNCHANGED notGm

\* if (verbose && unmatchedGames.length > 0) allGames = await _matchEspnWithNcaaGames(...)
FallbackMatching ==
    /\ gmPc = "fallback"
    /\ allGames' = IF verbose /\ Len(unmatchedGames) > 0
                   THEN matchEspnWithNcaaGames(allGames, ncaaCache, initialTeamsData, now)
                   ELSE allGames
    /\ gmPc' = "bindings"
    /\ UNCHANGED <<gmInputs, unmatchedGames, potentialBindings, researchableBindings,
                   validGames>>
    /\ UNCHANGED notGm

\* const potentialBindings = deducePotentialBindings(...); const researchableBindings
DeduceBindings ==
    /\ gmPc = "bindings"
    /\ \E deduced \in {deducePotentialBindings(allGames, ncaaCache, initialTeamsData)} :
          /\ potentialBindings' = deduced
          /\ researchableBindings' = SelectSeq(deduced, IsResearchable)
    /\ gmPc' = "combine"
    /\ UNCHANGED <<gmInputs, allGames, unmatchedGames, validGames>>
    /\ UNCHANGED notGm

\* the NCAA-only games, the final deduplication, the transformation, the
\* inference of missing team ids and the games returned
CombineGames ==
    /\ gmPc = "combine"
    /\ \E finalGames \in
            {deduplicateGames(
                 allGames \o uniqueNcaaGames(
                                 generateNcaaGameObjects(ncaaCache, initialTeamsData,
                                                         allGames),
                                 allGames))} :
          validGames' = allProcessedGames(
                            inferMissingTeamIds(transformedGames(finalGames)),
                            allGames)
    /\ gmPc' = "done"
    /\ UNCHANGED <<gmInputs, allGames, unmatchedGames, potentialBindings,
                   researchableBindings>>
    /\ UNCHANGED notGm

GmNext ==
    \/ LoadGames
    \/ TeamByTeamMatching
    \/ FallbackMatching
    \/ DeduceBindings
    \/ CombineGames

\* Has the step after the fallback pass been reached, and did the pass run ?
FallbackRan ==
    /\ gmPc \in {"bindings", "combine", "done"}
    /\ verbose
    /\ Len(unmatchedGames) > 0

\* The games the fallback pass gave a reference_id: unmatched after the
\* team loop, matched now.
FallbackMatched(game) ==
    /\ game.reference_id # NoId
    /\ \E u \in DOMAIN unmatchedGames : unmatchedGames[u].espn_id = game.espn_id

\* The NCAA game the fallback pass sees under an id.
FallbackGame(id) == FirstRowWithId(AllNcaaGames(ncaaCache), id)

\* C1: no two distinct games of the returned set carry the same non-null
\* reference_id.
C1_NoSharedReferenceId ==
    gmPc = "done" =>
        \A i \in DOMAIN validGames : \A j \in DOMAIN validGames :
            (i # j /\ validGames[i].reference_id # NoId)
                => validGames[i].reference_id # validGames[j].reference_id

\* C5: a game the fallback pass matched to an NCAA game more than 1.5 days
\* away has a known NCAA id for both of its teams, and the two team ids of
\* the NCAA game are among them.
C5_FarMatchNeedsBothIds ==
    FallbackRan =>
        \A k \in DOMAIN allGames :
            (/\ FallbackMatched(allGames[k])
             /\ 2 * Abs(allGames[k].date_time
                          - FallbackGame(allGames[k].reference_id).date) > 3 * UnitsPerDay)
            => /\ HomeTeamOf(allGames[k], initialTeamsData).reference_id # NoId
               /\ AwayTeamOf(allGames[k], initialTeamsData).reference_id # NoId
               /\ FallbackGame(allGames[k].reference_id).home_team_ncaa_id
                    \in {HomeTeamOf(allGames[k], initialTeamsData).reference_id,
                         AwayTeamOf(allGames[k], initialTeamsData).reference_id}
               /\ FallbackGame(allGames[k].reference_id).opponent_ncaa_id
                    \in {HomeTeamOf(allGames[k], initialTeamsData).reference_id,
                         AwayTeamOf(allGames[k], initialTeamsData).reference_id}

\* resolve applied to an id list
CanonicalIds(ids) == [k \in DOMAIN ids |-> getCanonicalNcaaId(ids[k], "football")]

\* _isMatch on canonical ids: the ids of the two teams and the two team ids
\* of the NCAA game are resolved through the consolidation map first
IsMatchCanonical(espnGame, ncaaGame, teamsData) ==
    IsMatchIds(Abs(espnGame.date_time - ncaaGame.date),
               CanonicalIds(availableNcaaIds(HomeTeamOf(espnGame, teamsData),
                                             AwayTeamOf(espnGame, teamsData))),
               getCanonicalNcaaId(ncaaGame.home_team_ncaa_id, "football"),
               getCanonicalNcaaId(ncaaGame.opponent_ncaa_id, "football"))

\* the bound team of an unmatched game one side of which is not in the team data
BoundTeamOf(espnGame, teamsData) ==
    IF FindByEspnId(teamsData, espnGame.home_espn_id) = NoTeam
    THEN FindByEspnId(teamsData, espnGame.away_espn_id)
    ELSE IF FindByEspnId(teamsData, espnGame.away_espn_id) = NoTeam
    THEN FindByEspnId(teamsData, espnGame.home_espn_id)
    ELSE NoTeam

UnboundEspnIdOf(espnGame, teamsData) ==
    IF FindByEspnId(teamsData, espnGame.home_espn_id) = NoTeam
    THEN espnGame.home_espn_id ELSE espnGame.away_espn_id

\* Is the NCAA game, read through the consolidation map, a game of the team
\* against an opponent with an id ?
CanonicalGameOf(ncaaGame, team) ==
    LET c == getCanonicalNcaaId(team.reference_id, "football")
        h == getCanonicalNcaaId(ncaaGame.home_team_ncaa_id, "football")
        o == getCanonicalNcaaId(ncaaGame.opponent_ncaa_id, "football")
    IN  (h = c /\ o # NoId) \/ (o = c /\ h # NoId)

IsEvidence(b, espnGame, ncaaGame) ==
    \E e \in DOMAIN b.evidence_games :
        /\ b.evidence_games[e].espn_game_id = espnGame.espn_id
        /\ b.evidence_games[e].ncaa_game_id = ncaaGame.ncaa_game_id

\* C6, game matching: after the fallback pass, a completed game is left
\* without reference_id only if every NCAA game that matches it once the team
\* ids are resolved through the consolidation map was taken by the pass.
C6_MatchingCanonical ==
    FallbackRan =>
        \A k \in DOMAIN allGames :
            (allGames[k].date_time < now /\ allGames[k].reference_id = NoId)
            => \A r \in DOMAIN NcaaGamesById(AllNcaaGames(ncaaCache)) :
                  (/\ NcaaGamesById(AllNcaaGames(ncaaCache))[r].date # NoDate
                   /\ IsMatchCanonical(allGames[k],
                                       NcaaGamesById(AllNcaaGames(ncaaCache))[r],
                                       initialTeamsData))
                  => \E m \in DOMAIN allGames :
                        /\ FallbackMatched(allGames[m])
                        /\ allGames[m].reference_id
                             = NcaaGamesById(AllNcaaGames(ncaaCache))[r].ncaa_game_id

\* C6, binding discovery: a cached NCAA game within 2.5 days of an unmatched
\* game that, with its team ids resolved through the consolidation map, is a
\* game of the bound team is an evidence game of a candidate for the unbound
\* ESPN team.
C6_DiscoveryCanonical ==
    gmPc \in {"combine", "done"} =>
        \A k \in DOMAIN allGames :
            (/\ allGames[k].reference_id = NoId
             /\ BoundTeamOf(allGames[k], initialTeamsData).reference_id # NoId)
            => \A r \in DOMAIN AllNcaaGames(ncaaCache) :
                  (/\ AllNcaaGames(ncaaCache)[r].date # NoDate
                   /\ LessThanBinding(Abs(allGames[k].date_time
                                            - AllNcaaGames(ncaaCache)[r].date))
                   /\ CanonicalGameOf(AllNcaaGames(ncaaCache)[r],
                                      BoundTeamOf(allGames[k], initialTeamsData)))
                  => \E b \in DOMAIN potentialBindings :
                        /\ potentialBindings[b].type = "espn_to_ncaa"
                        /\ potentialBindings[b].espn_id
                             = UnboundEspnIdOf(allGames[k], initialTeamsData)
                        /\ IsEvidence(potentialBindings[b], allGames[k],
                                      AllNcaaGames(ncaaCache)[r])

\* C6: game matching and binding discovery treat a cached NCAA game whose
\* team id is a duplicate d, mapped to c in the consolidation map, as a game
\* of the team whose NCAA id is c.
C6_CanonicalAtUse == C6_MatchingCanonical /\ C6_DiscoveryCanonical

Selected(b) == \E k \in DOMAIN researchableBindings : researchableBindings[k] = b

C17_NoSharedEspnId ==
    gmPc = "done" =>
        \A i, j \in DOMAIN validGames :
            (i # j /\ validGames[i].espn_id # NoId)
                => validGames[i].espn_id # validGames[j].espn_id

\* An ESPN game is on the cached schedule of two teams of the team data,
\* so it was collected twice, and it has been returned.
C17_Witness ==
    /\ gmPc = "done"
    /\ \E i, j \in DOMAIN initialTeamsData :
          /\ i # j
          /\ initialTeamsData[i].espn_id \in DOMAIN espnCache
          /\ initialTeamsData[j].espn_id \in DOMAIN espnCache
          /\ \E a \in DOMAIN espnCache[initialTeamsData[i].espn_id] :
                \E b \in DOMAIN espnCache[initialTeamsData[j].espn_id] :
                    /\ espnCache[initialTeamsData[i].espn_id][a].espn_id
                          = espnCache[initialTeamsData[j].espn_id][b].espn_id
                    /\ \E k \in DOMAIN validGames :
                          validGames[k].espn_id
                              = espnCache[initialTeamsData[i].espn_id][a].espn_id

\* C18: no ESPN game is linked to an NCAA game whose date differs from its
\* own by more than 7 days, in the team-by-team pass or in the fallback pass.
C18_NoLinkBeyondSevenDays ==
    gmPc \in {"fallback", "bindings", "combine", "done"} =>
        \A k \in DOMAIN allGames :
            allGames[k].reference_id # NoId =>
                /\ \E r \in DOMAIN AllNcaaGames(ncaaCache) :
                      AllNcaaGames(ncaaCache)[r].ncaa_game_id = allGames[k].reference_id
                /\ \A r \in DOMAIN AllNcaaGames(ncaaCache) :
                      AllNcaaGames(ncaaCache)[r].ncaa_game_id = allGames[k].reference_id
                        => /\ AllNcaaGames(ncaaCache)[r].date # NoDate
                           /\ Abs(allGames[k].date_time - AllNcaaGames(ncaaCache)[r].date)
                                  <= 7 * UnitsPerDay

\* The fallback pass linked a game, and left another game without link for
\* which the cache holds a game of its home team more than 7 days away.
C18_Witness ==
    /\ gmPc = "done"
    /\ FallbackRan
    /\ \E k \in DOMAIN allGames : FallbackMatched(allGames[k])
    /\ \E k \in DOMAIN allGames : \E r \in DOMAIN AllNcaaGames(ncaaCache) :
          /\ allGames[k].reference_id = NoId
          /\ AllNcaaGames(ncaaCache)[r].ncaa_game_id # NoId
          /\ AllNcaaGames(ncaaCache)[r].date # NoDate
          /\ Abs(allGames[k].date_time - AllNcaaGames(ncaaCache)[r].date) > 7 * UnitsPerDay
          /\ HomeTeamOf(allGames[k], initialTeamsData).reference_id # NoId
          /\ AllNcaaGames(ncaaCache)[r].home_team_ncaa_id
                = HomeTeamOf(allGames[k], initialTeamsData).reference_id

\* finalGames of the run: the games that remain after the last deduplication.
FinalGames ==
    deduplicateGames(
        allGames \o uniqueNcaaGames(generateNcaaGameObjects(ncaaCache, initialTeamsData,
                                                            allGames),
                                    allGames))

\* C19: every game that remains after the deduplication is in the returned
\* array, also when one or both of its team ids are unresolved.
C19_NoGameDropped ==
    gmPc = "done" =>
        \E finalGames \in {FinalGames} :
            /\ Len(validGames) = Len(finalGames)
            /\ \A k \in DOMAIN finalGames :
                  /\ validGames[k].espn_id = finalGames[k].espn_id
                  /\ validGames[k].reference_id = finalGames[k].reference_id
                  /\ validGames[k].date_time = finalGames[k].date_time

\* The returned array holds a game without any team id and a game with one
\* team id only.
C19_Witness ==
    /\ gmPc = "done"
    /\ \E k \in DOMAIN validGames :
          validGames[k].home_id = NoId /\ validGames[k].away_id = NoId
    /\ \E k \in DOMAIN validGames :
          (validGames[k].home_id = NoId) # (validGames[k].away_id = NoId)

\* C20: the evidence counter of a candidate is the number of distinct games
\* that support it: no game of the NCAA source is counted twice for one
\* candidate (with the same ESPN game, for a cross-source candidate).
C20_OneIncrementPerGame ==
    \A i \in DOMAIN potentialBindings :
        /\ potentialBindings[i].confidence = Len(potentialBindings[i].evidence_games)
        /\ \A a, b \in DOMAIN potentialBindings[i].evidence_games :
              /\ a # b
              /\ potentialBindings[i].evidence_games[a].ncaa_game_id # NoId
              => potentialBindings[i].evidence_games[a]
                    # potentialBindings[i].evidence_games[b]

\* The event of the ESPN schedule a cached game was created from.
ApiGameOf(game) ==
    ApiGamePool[CHOOSE k \in DOMAIN ApiGamePool : ApiGamePool[k].id = game.espn_id]

C12_UnknownScoreStaysNull ==
    \A e \in DOMAIN espnCache : \A k \in DOMAIN espnCache[e] :
        /\ Competitor(ApiGameOf(espnCache[e][k]), "home").score = NoScore
               => espnCache[e][k].home_score = NoScore
        /\ Competitor(ApiGameOf(espnCache[e][k]), "away").score = NoScore
               => espnCache[e][k].away_score = NoScore

C12_UnknownDateStaysNull ==
    \A k \in DOMAIN validGames :
        validGames[k].date_time = NoDate => validGames[k].date = NoDate

\* C12: an unknown value stays unknown: an ESPN game whose competitor has no
\* score value has a null score, not 0, and a returned game whose date_time
\* is null has a null date, not a calendar date.
C12_UnknownStaysUnknown ==
    C12_UnknownScoreStaysNull /\ C12_UnknownDateStaysNull

\* The reference_id of the game of games with the ESPN id, NoId when there is
\* no such game.
ReferenceOf(games, espn_id) ==
    IF \E k \in DOMAIN games : games[k].espn_id = espn_id
    THEN games[CHOOSE k \in DOMAIN games : games[k].espn_id = espn_id].reference_id
    ELSE NoId

\* A reference_id a game carries before a step of the run is the one it
\* carries after the step.
C21_AssignedIdKept ==
    [][\A k \in DOMAIN allGames :
          (gmPc \in {"teams", "fallback"} /\ allGames[k].reference_id # NoId)
              => ReferenceOf(allGames', allGames[k].espn_id) = allGames[k].reference_id]_vars

\* A matching step gives a game no NCAA game id that another game carries
\* after the step.
C21_ConsumedIdSkipped ==
    [][\A k \in DOMAIN allGames' :
          (/\ gmPc \in {"teams", "fallback"}
           /\ allGames'[k].reference_id # NoId
           /\ ReferenceOf(allGames, allGames'[k].espn_id) = NoId)
              => \A j \in DOMAIN allGames' :
                    j # k => allGames'[j].reference_id # allGames'[k].reference_id]_vars

\* C21: an NCAA game id assigned to a game is never overwritten by a later
\* matching step, and no matching step assigns an NCAA game id that is
\* already consumed.
C21_NeverOverwrittenNorReused == C21_AssignedIdKept /\ C21_ConsumedIdSkipped

\* The team whose schedule is stored under a cache key, and the opponent of a
\* row, as _generateNcaaGameObjects looks them up.
ScrapedTeam(teamNcaaId) ==
    FindByReferenceId(initialTeamsData, getCanonicalNcaaId(teamNcaaId, "football"))

OpponentTeam(game) ==
    IF game.opponent_ncaa_id = NoId THEN NoTeam
    ELSE FindByReferenceId(initialTeamsData,
                           getCanonicalNcaaId(game.opponent_ncaa_id, "football"))

BeginsWithAt(name) == name # <<>> /\ Head(name) = "@"

\* a name that begins with "@" without the "@" and the spaces after it
WithoutAt(name) == TrimLeft(Tail(name))

\* The rows of the cache a game object is generated from.
GeneratingRows ==
    {i \in DOMAIN CacheRows(ncaaCache) : FirstOfGameId(CacheRows(ncaaCache), i)}

\* The team ids of the game object of a row: with "@" the team of the
\* schedule is the away team and the opponent the home team, without "@" the
\* team of the schedule is the home team; the cleaned name of an opponent
\* written with "@" is the name without the "@".
C24_SidesById ==
    \A i \in GeneratingRows :
        \E key \in {CacheRows(ncaaCache)[i][1]}, game \in {CacheRows(ncaaCache)[i][2]} :
            \E obj \in {RowGameObject(key, game, initialTeamsData, allGames)} :
                IF BeginsWithAt(game.opponent_name)
                THEN /\ obj.away_id = ScrapedTeam(key).id
                     /\ obj.home_id = OpponentTeam(game).id
                     /\ cleanNcaaOpponentName(game.opponent_name)
                            = WithoutAt(game.opponent_name)
                ELSE /\ obj.home_id = ScrapedTeam(key).id
                     /\ obj.away_id = OpponentTeam(game).id

\* The name of the away team of a game written with "@" is not the name of
\* the opponent, which is the home team.
C24_SidesByName ==
    \A i \in GeneratingRows :
        \E key \in {CacheRows(ncaaCache)[i][1]}, game \in {CacheRows(ncaaCache)[i][2]} :
            BeginsWithAt(game.opponent_name)
                => RowGameObject(key, game, initialTeamsData, allGames).away
                       # WithoutAt(game.opponent_name)

\* C24: for an NCAA game whose opponent name begins with "@" the team of the
\* schedule is assigned as the away team and the opponent as the home team
\* (without "@" the team of the schedule is the home team), and the cleaned
\* opponent name is the name without the leading "@".
C24_AtMeansAway == C24_SidesById /\ C24_SidesByName

\* The venue the ESPN schedule gives for a returned game (NoVenue: none, also
\* for a game that is on no ESPN schedule).
SourceVenue(game) == IF game.espn_id = NoId THEN NoVenue ELSE ApiGameOf(game).venue

\* A returned game whose home team is resolved keeps the venue of its source.
C27_VenueKeptHomeResolved ==
    gmPc = "done" =>
        \A k \in DOMAIN validGames :
            (SourceVenue(validGames[k]) # NoVenue /\ validGames[k].home_id # NoId)
                => validGames[k].venue = SourceVenue(validGames[k])

\* C27: the inference of the venue only fills a missing venue: a returned
\* game whose source data carries a venue has that venue, also when its home
\* team is unresolved.
C27_SourceVenueKept ==
    gmPc = "done" =>
        \A k \in DOMAIN validGames :
            SourceVenue(validGames[k]) # NoVenue
                => validGames[k].venue = SourceVenue(validGames[k])

\* Is the NCAA game a game of the team less than 2.5 days from the ESPN game,
\* against an opponent whose NCAA id is known ?
NearGameOf(ncaaGame, espnGame, team) ==
    /\ ncaaGame.date # NoDate
    /\ LessThanBinding(Abs(espnGame.date_time - ncaaGame.date))
    /\ \/ ncaaGame.home_team_ncaa_id = team.reference_id /\ ncaaGame.opponent_ncaa_id # NoId
       \/ /\ ncaaGame.home_team_ncaa_id # team.reference_id
          /\ ncaaGame.opponent_ncaa_id = team.reference_id
          /\ ncaaGame.home_team_ncaa_id # NoId

\* Is there a candidate for the unbound side of the game with the NCAA game
\* among its evidence ?
CandidateRecorded(espnGame, ncaaGame) ==
    \E b \in DOMAIN potentialBindings :
        /\ potentialBindings[b].type = "espn_to_ncaa"
        /\ potentialBindings[b].espn_id = UnboundEspnIdOf(espnGame, initialTeamsData)
        /\ IsEvidence(potentialBindings[b], espnGame, ncaaGame)

\* the games with one side that is not in the team data and a bound team on
\* the other side
OneSideUnbound ==
    {k \in DOMAIN allGames :
        /\ allGames[k].date_time # NoDate
        /\ BoundTeamOf(allGames[k], initialTeamsData).reference_id # NoId}

\* A game without NCAA game id is considered by the binding discovery.
C28_UnlinkedConsidered ==
    gmPc \in {"combine", "done"} =>
        \A k \in OneSideUnbound : \A r \in DOMAIN AllNcaaGames(ncaaCache) :
            (/\ allGames[k].reference_id = NoId
             /\ NearGameOf(AllNcaaGames(ncaaCache)[r], allGames[k],
                           BoundTeamOf(allGames[k], initialTeamsData)))
            => CandidateRecorded(allGames[k], AllNcaaGames(ncaaCache)[r])

\* C28: the binding discovery considers every game with exactly one unbound
\* side and a bound team on the other side, whether or not the game has an
\* NCAA game id already, and records a candidate whenever the bound team has
\* an NCAA game less than 2.5 days away with a known opponent id.
C28_EveryGameConsidered ==
    gmPc \in {"combine", "done"} =>
        \A k \in OneSideUnbound : \A r \in DOMAIN AllNcaaGames(ncaaCache) :
            NearGameOf(AllNcaaGames(ncaaCache)[r], allGames[k],
                       BoundTeamOf(allGames[k], initialTeamsData))
            => CandidateRecorded(allGames[k], AllNcaaGames(ncaaCache)[r])

(***************************************************************************)
\* The state abbreviation a name gives between parentheses at its end, in
\* lower case (the empty string when it gives none that stateMappings has).
ParenthesizedState(name) ==
    IF /\ Len(name) >= 4
       /\ name[Len(name) - 3] = "(" /\ name[Len(name)] = ")"
       /\ HasStateMapping(toLowerCase(SubSeq(name, Len(name) - 2, Len(name) - 1)))
    THEN toLowerCase(SubSeq(name, Len(name) - 2, Len(name) - 1))
    ELSE <<>>

\* C30: cleanName replaces a two-letter state abbreviation given between
\* parentheses at the end of the name by the full name of the state: the
\* normalized form of "Miami (OH)" contains "ohio".
C30_StateAbbreviationExpanded ==
    (nmPc = "cleanName" /\ ParenthesizedState(nmA) # <<>>)
        => Includes(nmOut, StateMappingOf(ParenthesizedState(nmA)))

\* The abbreviation stays in the normalized form as it is written.
C30_AbbreviationLeft ==
    (nmPc = "cleanName" /\ ParenthesizedState(nmA) # <<>>)
        => /\ ParenthesizedState(nmA) \in SeqToSet(Split(nmOut))
           /\ ~Includes(nmOut, StateMappingOf(ParenthesizedState(nmA)))

\* The array get_formatted_games returns on the inputs of the run when its
\* argument verbose is flag: the steps of the run, one after the other.
ReturnedGames(flag) ==
    LET loaded == deduplicateGames(
                      processAllEspnGames(uniqueEspnIds(initialTeamsData),
                                          initialTeamsData, espnCache))
        matched == TeamLoop(loaded, matchableTeams(initialTeamsData), 1, ncaaCache)
        unmatched == SelectSeq(matched, LAMBDA g : g.reference_id = NoId)
        games == IF flag /\ Len(unmatched) > 0
                 THEN matchEspnWithNcaaGames(matched, ncaaCache, initialTeamsData, now)
                 ELSE matched
        finalGames == deduplicateGames(
                          games \o uniqueNcaaGames(
                                       generateNcaaGameObjects(ncaaCache, initialTeamsData,
                                                               games),
                                       games))
    IN  allProcessedGames(inferMissingTeamIds(transformedGames(finalGames)), games)

\* What the resolution of a game is: its ids at both sources, its teams and
\* its winner.
Resolution(games) ==
    [k \in DOMAIN games |->
        [espn_id |-> games[k].espn_id, reference_id |-> games[k].reference_id,
         home_id |-> games[k].home_id, away_id |-> games[k].away_id,
         winner_id |-> games[k].winner_id]]

\* The array returned is the one the steps give for the argument verbose.
C32_RunIsItsSteps == gmPc = "done" => validGames = ReturnedGames(verbose)

\* C32: the resolved games do not depend on the logging flag: on the same
\* inputs and caches a run with verbose = false returns the same NCAA game
\* ids, home and away team ids and winner ids as a run with verbose = true.
C32_VerboseChangesNothing ==
    gmPc = "done" =>
        \E other \in {ReturnedGames(~verbose)} :
            Resolution(validGames) = Resolution(other)

\* C34: two names that both clean to the empty string (such as "University"
\* and "College") are not a safe match.
C34_EmptyNamesNotSafe ==
    (nmPc = "isSafeMatch" /\ cleanName(nmA) = <<>> /\ cleanName(nmB) = <<>>) => nmOut = FALSE

\* isSafeMatch called with two different names that both clean to the empty string.
C34_CalledWithEmptyNames ==
    nmPc = "isSafeMatch" /\ nmA # nmB /\ cleanName(nmA) = <<>> /\ cleanName(nmB) = <<>>

\* C36: a run of matchEspnToNcaaTeams on the two team lists of an earlier run
\* and the updatedBindings that run returned merges exactly the pairs the
\* earlier run merged.
C36_FedBackSamePairs ==
    (tmPc = "done" /\ tmFirst # <<>>)
        => SeqToSet(AllMatched) = SeqToSet(tmFirst.allMatchedData)

\* The same, for team lists in which no two NCAA records have the same id
\* and every NCAA record has one.
C36_FedBackSamePairsDistinctIds ==
    (/\ tmPc = "done" /\ tmFirst # <<>>
     /\ \A i, j \in DOMAIN ncaaTeamsWithIds :
           /\ ncaaTeamsWithIds[i].ncaa_id # NoId
           /\ i # j => ncaaTeamsWithIds[i].ncaa_id # ncaaTeamsWithIds[j].ncaa_id)
        => SeqToSet(AllMatched) = SeqToSet(tmFirst.allMatchedData)

(* PART D - Dates of the NCAA schedule pages                               *)
(* (src/src/games/football-games-college.js, _parseNcaaDate)               *)
(***************************************************************************)

\* Number(text) of a text that is not a number
NaN == -1

DigitChars == <<"0", "1", "2", "3", "4", "5", "6", "7", "8", "9">>

DigitValue(c) == (CHOOSE i \in DOMAIN DigitChars : DigitChars[i] = c) - 1

\* Number(text): the empty text is 0, a text of digits is its value; the
\* other texts of the pool are not numbers
RECURSIVE NumberOf(_)
NumberOf(text) ==
    IF text = <<>> THEN 0
    ELSE IF \E i \in DOMAIN text : text[i] \notin Digits THEN NaN
    ELSE 10 * NumberOf(SubSeq(text, 1, Len(text) - 1)) + DigitValue(text[Len(text)])

\* text.split(separator) for a separator of one character
RECURSIVE SplitAt(_, _)
SplitAt(text, separator) ==
    IF \A i \in DOMAIN text : text[i] # separator THEN <<text>>
    ELSE LET i == Min({j \in DOMAIN text : text[j] = separator})
         IN  <<SubSeq(text, 1, i - 1)>> \o SplitAt(SubSeq(text, i + 1, Len(text)), separator)

IsLeapYear(year) == year % 4 = 0 /\ (year % 100 # 0 \/ year % 400 = 0)

DaysInMonth(year, month) ==
    IF month = 2 THEN (IF IsLeapYear(year) THEN 29 ELSE 28)
    ELSE IF month \in {4, 6, 9, 11} THEN 30 ELSE 31

\* A Date, by the year, month (1 to 12) and day its local getters return.
DateOf(year, month, day) == [year |-> year, month |-> month, day |-> day]

\* null where a Date is expected
NullDate == DateOf(0, 0, 0)

\* The day number day of the month, counted on into the months after it or
\* back into the months before it.
RECURSIVE RollDays(_, _, _)
RollDays(year, month, day) ==
    IF day < 1
    THEN LET y == IF month = 1 THEN year - 1 ELSE year
             m == IF month = 1 THEN 12 ELSE month - 1
         IN  RollDays(y, m, day + DaysInMonth(y, m))
    ELSE IF day > DaysInMonth(year, month)
    THEN RollDays(IF month = 12 THEN year + 1 ELSE year,
                  IF month = 12 THEN 1 ELSE month + 1,
                  day - DaysInMonth(year, month))
    ELSE DateOf(year, month, day)

\* new Date(year, monthIndex, day): a year from 0 to 99 is a year of the
\* 1900s, a month index outside 0..11 and a day outside the month carry over
NewDateYMD(year, monthIndex, day) ==
    LET fullYear == IF year \in 0..99 THEN 1900 + year ELSE year
    IN  RollDays(fullYear + (monthIndex \div 12), (monthIndex % 12) + 1, day)

\* YYYY-MM-DD
IsIsoText(text) ==
    /\ Len(text) = 10
    /\ text[5] = "-" /\ text[8] = "-"
    /\ \A i \in {1, 2, 3, 4, 6, 7, 9, 10} : text[i] \in Digits

\* new Date(dateStr) for a text without "/": a text YYYY-MM-DD that names a
\* day of the calendar is that day; of the other texts the pool holds only
\* ones that are a date in no format
NewDateText(dateStr) ==
    IF IsIsoText(dateStr)
    THEN LET year == NumberOf(SubSeq(dateStr, 1, 4))
             month == NumberOf(SubSeq(dateStr, 6, 7))
             day == NumberOf(SubSeq(dateStr, 9, 10))
         IN  IF month \in 1..12 /\ day \in 1..DaysInMonth(year, month)
             THEN DateOf(year, month, day) ELSE NullDate
    ELSE NullDate

\* const [month, day, year] = ...; a missing element is undefined, which isNaN
PartNumber(parts, i) == IF i <= Len(parts) THEN NumberOf(parts[i]) ELSE NaN

\* _parseNcaaDate(dateStr)
parseNcaaDate(dateStr) ==
    IF dateStr = <<>> THEN NullDate
    ELSE IF "/" \in SeqToSet(dateStr)
    THEN LET parts == SplitAt(Head(SplitAt(dateStr, " ")), "/")
             month == PartNumber(parts, 1)
             day == PartNumber(parts, 2)
             year == PartNumber(parts, 3)
         IN  IF NaN \in {month, day, year} THEN NullDate
             ELSE IF NewDateYMD(year, month - 1, day).month = month
             THEN NewDateYMD(year, month - 1, day)
             ELSE NullDate
    ELSE NewDateText(dateStr)

\* The date texts: month, day and year texts joined by "/", with or without
\* a time after them, and three texts without "/".
MonthTexts == {<<>>, <<"0">>, <<"1">>, <<"2">>, <<"1", "2">>, <<"1", "3">>}
DayTexts ==
    {<<"0">>, <<"1">>, <<"2", "8">>, <<"2", "9">>, <<"3", "0">>, <<"3", "1">>,
     <<"3", "2">>, <<"3", "6", "6">>}
YearTexts == {<<>>, <<"2", "0", "2", "3">>, <<"2", "0", "2", "4">>}
TimeTexts == {<<>>, <<" ", "7", ":", "0", "0", " ", "P", "M">>}
D_TBD == <<"T", "B", "D">>
D_Iso == <<"2", "0", "2", "4", "-", "0", "9", "-", "0", "7">>

DatePool ==
    {m \o <<"/">> \o d \o <<"/">> \o y \o t :
        m \in MonthTexts, d \in DayTexts, y \in YearTexts, t \in TimeTexts}
    \cup {<<>>, D_TBD, D_Iso}

DtInit ==
    /\ nmPc = "in"
    /\ nmA \in DatePool
    /\ nmB = <<>>
    /\ nmOut = <<>>

\* a call _parseNcaaDate(nmA)
CallParseNcaaDate ==
    /\ nmPc = "in"
    /\ nmOut' = parseNcaaDate(nmA)
    /\ nmPc' = "parseNcaaDate"
    /\ UNCHANGED <<nmA, nmB, notNm>>

DtNext == CallParseNcaaDate

\* Is the text M/D/YYYY, alone or followed by a space and more text, with M a
\* month of the year and D a day of that month ?  Then WrittenDate is the
\* date it denotes.
IsNumeral(text, lengths) == Len(text) \in lengths /\ \A i \in DOMAIN text : text[i] \in Digits

WrittenParts(dateStr) == SplitAt(Head(SplitAt(dateStr, " ")), "/")

DenotesDate(dateStr) ==
    /\ Len(WrittenParts(dateStr)) = 3
    /\ IsNumeral(WrittenParts(dateStr)[1], {1, 2})
    /\ IsNumeral(WrittenParts(dateStr)[2], {1, 2})
    /\ IsNumeral(WrittenParts(dateStr)[3], {4})
    /\ NumberOf(WrittenParts(dateStr)[1]) \in 1..12
    /\ NumberOf(WrittenParts(dateStr)[2])
          \in 1..DaysInMonth(NumberOf(WrittenParts(dateStr)[3]),
                             NumberOf(WrittenParts(dateStr)[1]))

WrittenDate(dateStr) ==
    DateOf(NumberOf(WrittenParts(dateStr)[3]), NumberOf(WrittenParts(dateStr)[1]),
           NumberOf(WrittenParts(dateStr)[2]))

\* A text M/D/YYYY that denotes a day of the calendar is parsed to that day.
C29_WrittenDateReturned ==
    (nmPc = "parseNcaaDate" /\ "/" \in SeqToSet(nmA) /\ DenotesDate(nmA))
        => nmOut = WrittenDate(nmA)

\* A text with "/" that denotes no day of the calendar is parsed to null.
C29_NullForNoDate ==
    (nmPc = "parseNcaaDate" /\ "/" \in SeqToSet(nmA) /\ ~DenotesDate(nmA))
        => nmOut = NullDate

\* C29: _parseNcaaDate returns null for every text that does not denote a
\* valid calendar date, and for a text M/D/YYYY, with or without text after
\* it, that does, a date with the year, month and day written in the text.
C29_ParsedAsWrittenOrNull == C29_WrittenDateReturned /\ C29_NullForNoDate

(***************************************************************************)
(* PART E - NCAA ids attached to the NCAA team records                     *)
(* (src/src/util/ncaa-school-util.js addNcaaIdsToTeams,                    *)
(*  src/unnamed/part_000 _addNcaaIdsToTeams)                               *)
(* The records hold no HTML entity, so that decodeHtmlEntities returns     *)
(* them as they are; an NCAA id is a number no name is equal to.           *)
(***************************************************************************)

\* A team of the NCAA school pages and a record of the NCAA id index.
NcaaSchool(school_name, name_ncaa, university, nickname_ncaa) ==
    [school_name |-> school_name, name_ncaa |-> name_ncaa,
     university |-> university, nickname_ncaa |-> nickname_ncaa]

IdRecord(team_name, ncaa_id) == [team_name |-> team_name, ncaa_id |-> ncaa_id]

\* undefined where a record of the id index is expected
NoIdRecord == IdRecord(<<>>, NoId)

\* { ...team, ncaa_id }
WithNcaaId(team, ncaa_id) == [team |-> team, ncaa_id |-> ncaa_id]

\* const normalize = val => (typeof val === "string" ? val.toLowerCase().trim() : val)
normalize(val) == trim(toLowerCase(val))

\* _addNcaaIdsToTeams of part_000: ncaaIds.find(...) for a team
FindMatchingId(team, ncaaIds) ==
    LET hits == {i \in DOMAIN ncaaIds :
                    /\ ncaaIds[i].team_name # <<>> /\ team.school_name # <<>>
                    /\ normalize(ncaaIds[i].team_name) = normalize(team.school_name)}
    IN  IF hits = {} THEN NoIdRecord ELSE ncaaIds[Min(hits)]

\* _addNcaaIdsToTeams(ncaaTeams, ncaaIds, verbose) of part_000
addNcaaIdsToTeamsExact(ncaaTeams, ncaaIds) ==
    [matchedTeams |->
        LET idx == SelectSeq([i \in DOMAIN ncaaTeams |-> i],
                             LAMBDA i : FindMatchingId(ncaaTeams[i], ncaaIds) # NoIdRecord)
        IN  [k \in DOMAIN idx |->
                WithNcaaId(ncaaTeams[idx[k]],
                           FindMatchingId(ncaaTeams[idx[k]], ncaaIds).ncaa_id)],
     unmatchedTeams |->
        LET idx == SelectSeq([i \in DOMAIN ncaaTeams |-> i],
                             LAMBDA i : FindMatchingId(ncaaTeams[i], ncaaIds) = NoIdRecord)
        IN  [k \in DOMAIN idx |-> WithNcaaId(ncaaTeams[idx[k]], NoId)]]

\* exactMatchMap.get(normalizedName): the last record with a value that
\* normalizes to the name
ExactMatchOf(ncaaIds, normalizedName) ==
    LET hits == {i \in DOMAIN ncaaIds : normalize(ncaaIds[i].team_name) = normalizedName}
    IN  IF hits = {} THEN NoIdRecord
        ELSE ncaaIds[CHOOSE i \in hits : \A j \in hits : j <= i]

\* const potentialNames = [team.school_name, team.name_ncaa, team.university, team.nickname_ncaa]
PotentialNames(team) ==
    <<team.school_name, team.name_ncaa, team.university, team.nickname_ncaa>>

\* the for loop over potentialNames: the id of the first name with an unused match
FirstExactId(team, ncaaIds, usedIds) ==
    LET names == PotentialNames(team)
        hits == {n \in DOMAIN names :
                    /\ normalize(names[n]) # <<>>
                    /\ ExactMatchOf(ncaaIds, normalize(names[n])) # NoIdRecord
                    /\ ExactMatchOf(ncaaIds, normalize(names[n])).ncaa_id \notin usedIds}
    IN  IF hits = {} THEN NoId
        ELSE ExactMatchOf(ncaaIds, normalize(names[Min(hits)])).ncaa_id

\* ncaaTeams.reduce(...) from team k on
RECURSIVE ExactPhase(_, _, _, _)
ExactPhase(ncaaTeams, k, ncaaIds, acc) ==
    IF k > Len(ncaaTeams) THEN acc
    ELSE LET id == FirstExactId(ncaaTeams[k], ncaaIds, acc.usedIds)
         IN  ExactPhase(ncaaTeams, k + 1, ncaaIds,
                        IF id # NoId
                        THEN [acc EXCEPT !.matched = Append(@, WithNcaaId(ncaaTeams[k], id)),
                                         !.usedIds = @ \cup {id}]
                        ELSE [acc EXCEPT !.unmatched = Append(@, ncaaTeams[k])])

\* s.replace(/pattern/gi, replacement) for a pattern of letters, given in lower case
RECURSIVE ReplaceText(_, _, _)
ReplaceText(s, pattern, replacement) ==
    IF Len(s) < Len(pattern) THEN s
    ELSE IF toLowerCase(SubSeq(s, 1, Len(pattern))) = pattern
    THEN replacement \o ReplaceText(SubSeq(s, Len(pattern) + 1, Len(s)), pattern, replacement)
    ELSE <<Head(s)>> \o ReplaceText(Tail(s), pattern, replacement)

\* s.replace(/\s*\([^)]*\)/g, ''): from the spaces before a "(" to the next ")"
RECURSIVE RemoveParentheses(_)
RemoveParentheses(s) ==
    LET opens == {i \in DOMAIN s : s[i] = "(" /\ \E j \in (i + 1)..Len(s) : s[j] = ")"}
    IN  IF opens = {} THEN s
        ELSE LET open == Min(opens)
                 close == Min({j \in (open + 1)..Len(s) : s[j] = ")"})
                 kept == TrimRight(SubSeq(s, 1, open - 1))
             IN  kept \o RemoveParentheses(SubSeq(s, close + 1, Len(s)))

W_Univ == <<"U", "n", "i", "v">>
W_St == <<"S", "t">>

\* const preprocess = name => ...
preprocess(name) ==
    trim(ReplaceEach(ReplaceText(ReplaceText(RemoveParentheses(name), W_university, W_Univ),
                                 W_state, W_St),
                     {"&"}, AmpToAnd))

SpaceFor(c) == <<" ">>

\* /^(of|the|and|at|in|a|an|for|to)$/i
StopWords ==
    {W_of, <<"t", "h", "e">>, W_and, W_at, <<"i", "n">>, <<"a">>, <<"a", "n">>,
     <<"f", "o", "r">>, <<"t", "o">>}

\* const generateAbbr = name => ...: the first letters of the words that
\* /[\s\-\.]+/ separates, in upper case
generateAbbr(name) ==
    LET words == SelectSeq(Split(ReplaceEach(RemoveParentheses(name), {"-", "."}, SpaceFor)),
                           LAMBDA w : w # <<>> /\ toLowerCase(w) \notin StopWords)
    IN  toUpperCase([k \in DOMAIN words |-> words[k][1]])

\* the elements of a list without the later copies of an element: [...new Set(list)]
Unique(list) ==
    SelectSeq([i \in DOMAIN list |-> IF \E j \in 1..(i - 1) : list[j] = list[i]
                                     THEN <<"">> ELSE list[i]],
              LAMBDA q : q # <<"">>)

\* const searchQueries = [...new Set([team.school_name, team.name_ncaa].filter(Boolean)
\*     .flatMap(q => [q, preprocess(q), generateAbbr(q)]))]
searchQueries(team) ==
    LET names == SelectSeq(<<team.school_name, team.name_ncaa>>, LAMBDA q : q # <<>>)
    IN  Unique(Flatten([k \in DOMAIN names |->
                           <<names[k], preprocess(names[k]), generateAbbr(names[k])>>]))

\* threshold: 0.3 and res.score < 0.3, in hundredths
IdThreshold == 30

\* The distances, in hundredths, Fuse may give a query and a team_name that
\* differ; a query that is the team_name, whatever the case, is at distance 0.
IdScores == {10, 50}

FuseScore(query, idRecord, near) ==
    IF query = <<>> THEN 100
    ELSE IF toLowerCase(query) = toLowerCase(idRecord.team_name) THEN 0
    ELSE near[idRecord.ncaa_id]

\* searchQueries.flatMap(q => fuse.search(q)).filter(...): the results of each
\* query in the order of their score
SearchResults(queries, remainingIds, usedIds, near) ==
    Flatten([q \in DOMAIN queries |->
        LET found == {i \in DOMAIN remainingIds :
                         /\ FuseScore(queries[q], remainingIds[i], near) < IdThreshold
                         /\ remainingIds[i].ncaa_id \notin usedIds}
            order == SortedSeq({FuseScore(queries[q], remainingIds[i], near) * 10 + i :
                                   i \in found})
        IN  [k \in DOMAIN order |->
                [item |-> remainingIds[order[k] % 10],
                 score |-> order[k] \div 10]]])

\* .reduce((best, current) => (!best || current.score < best.score) ? current : best, null)
BestMatch(results) ==
    IF results = <<>> THEN NoIdRecord
    ELSE results[Min({k \in DOMAIN results :
                         \A j \in DOMAIN results : results[k].score <= results[j].score})].item

\* unmatchedTeams.reduce(...) from team k on; near[k] is what Fuse answers
\* for the queries of that team
RECURSIVE FuzzyPhase(_, _, _, _, _)
FuzzyPhase(unmatchedTeams, k, remainingIds, near, acc) ==
    IF k > Len(unmatchedTeams) THEN acc
    ELSE LET best == BestMatch(SearchResults(searchQueries(unmatchedTeams[k]),
                                             remainingIds, acc.usedIds, near[k]))
         IN  FuzzyPhase(unmatchedTeams, k + 1, remainingIds, near,
                        IF best # NoIdRecord
                        THEN [acc EXCEPT !.matched
                                           = Append(@, WithNcaaId(unmatchedTeams[k],
                                                                  best.ncaa_id)),
                                         !.usedIds = @ \cup {best.ncaa_id}]
                        ELSE [acc EXCEPT !.unmatched
                                           = Append(@, WithNcaaId(unmatchedTeams[k], NoId))])

\* addNcaaIdsToTeams(ncaaTeams, ncaaIds, verbose) of ncaa-school-util.js
addNcaaIdsToTeams(ncaaTeams, ncaaIds, near) ==
    LET initialResult == ExactPhase(ncaaTeams, 1, ncaaIds,
                                    [matched |-> <<>>, unmatched |-> <<>>, usedIds |-> {}])
        remainingIds == SelectSeq(ncaaIds,
                                  LAMBDA id : id.ncaa_id \notin initialResult.usedIds)
        final == IF Len(initialResult.unmatched) > 0 /\ Len(remainingIds) > 0
                 THEN FuzzyPhase(initialResult.unmatched, 1, remainingIds, near,
                                 [initialResult EXCEPT !.unmatched = <<>>])
                 ELSE initialResult
    IN  [matchedTeams |-> final.matched, unmatchedTeams |-> final.unmatched]

\* The teams and the id records the calls are made on.
MaxSchools == 2
MaxIdRecords == 2

N_TowsonUniversity == N_Towson \o <<" ">> \o N_University
N_TowsonUniv == N_Towson \o <<" ">> \o W_Univ
N_AKRON == <<"A", "K", "R", "O", "N">>

SchoolPool ==
    {NcaaSchool(N_TowsonUniversity, N_Towson, <<>>, N_Tigers),
     NcaaSchool(N_Akron \o <<" ">>, <<>>, N_UniversityOfAkron, <<>>),
     NcaaSchool(N_MiamiOH, <<>>, <<>>, <<>>)}

IdRecordPool ==
    {IdRecord(N_TowsonUniv, 1), IdRecord(N_AKRON, 2), IdRecord(N_Miami, 3),
     IdRecord(N_KentSt, 4)}

IdInit ==
    /\ nmPc = "in"
    /\ nmA \in ListsOf(SchoolPool, MaxSchools)
    /\ nmB \in ListsOf(IdRecordPool, MaxIdRecords)
    /\ nmOut = <<>>

\* a call addNcaaIdsToTeams(nmA, nmB, verbose) of ncaa-school-util.js
CallAddNcaaIdsToTeams ==
    /\ nmPc = "in"
    /\ \E near \in [DOMAIN nmA -> [{nmB[i].ncaa_id : i \in DOMAIN nmB} -> IdScores]] :
          nmOut' = addNcaaIdsToTeams(nmA, nmB, near)
    /\ nmPc' = "addNcaaIdsToTeams"
    /\ UNCHANGED <<nmA, nmB, notNm>>

\* a call _addNcaaIdsToTeams(nmA, nmB, verbose) of part_000
CallAddNcaaIdsToTeamsExact ==
    /\ nmPc = "in"
    /\ nmOut' = addNcaaIdsToTeamsExact(nmA, nmB)
    /\ nmPc' = "_addNcaaIdsToTeams"
    /\ UNCHANGED <<nmA, nmB, notNm>>

IdNext == CallAddNcaaIdsToTeams \/ CallAddNcaaIdsToTeamsExact

\* Has the team one of the id records of the call as its record by name: is
\* one of its names, lower-cased and trimmed, the name of the record ?
SameName(team, idRecord) ==
    \E n \in DOMAIN PotentialNames(team) :
        /\ PotentialNames(team)[n] # <<>>
        /\ normalize(PotentialNames(team)[n]) = normalize(idRecord.team_name)

AttachedByName(matchedTeams) ==
    \A k \in DOMAIN matchedTeams :
        \E i \in DOMAIN nmB :
            /\ nmB[i].ncaa_id = matchedTeams[k].ncaa_id
            /\ SameName(matchedTeams[k].team, nmB[i])

\* _addNcaaIdsToTeams of part_000 attaches an id by the equal name only.
C31_ExactOnlyInTeamsModule ==
    nmPc = "_addNcaaIdsToTeams" => AttachedByName(nmOut.matchedTeams)

\* C31: the id of a record of the id index is attached to a team only when
\* the name of the record is equal to the name of the team, both lower-cased
\* and trimmed; no id is attached on an approximate match of the names.
C31_AttachedOnlyByEqualName ==
    nmPc \in {"_addNcaaIdsToTeams", "addNcaaIdsToTeams"}
        => AttachedByName(nmOut.matchedTeams)

(***************************************************************************)
(* PART F - the school map of the cross-sport stage                        *)
(* (src/unnamed/part_003 _leverageExistingBindings)                        *)
(* The binding files of the sports and the team lists of their ESPN        *)
(* endpoints are what the stage reads besides its two arguments.           *)
(***************************************************************************)

\* [t.location, cleanName(t.displayName), t.name].map(k => k?.toLowerCase().trim()).filter(k => k?.length >= 3)
SchoolKeys(t) ==
    {key \in {trim(toLowerCase(k)) : k \in {t.location, cleanName(t.displayName), t.name}} : Len(key) >= 3}

\* the entries { ncaaId, espnId, sport } of cross whose ESPN team is in espnData
\* and has the key
KeyBindings(key, cross, espnData) ==
    {c \in cross : \E t \in espnData : t.id = c.espnId /\ key \in SchoolKeys(t)}

\* const schoolMap, after the loop over cross.values()
schoolMap(cross, espnData) ==
    [key \in {k \in UNION {SchoolKeys(t) : t \in espnData} : KeyBindings(k, cross, espnData) # {}} |->
        [espnIds |-> {c.espnId : c \in KeyBindings(key, cross, espnData)},
         ncaaIds |-> {c.ncaaId : c \in KeyBindings(key, cross, espnData)},
         sports |-> {c.sport : c \in KeyBindings(key, cross, espnData)}]]

\* Entries of the binding files of the sports, and the teams the ESPN
\* endpoints of the sports list.
CrossPool ==
    {[ncaaId |-> 1, espnId |-> 1, sport |-> "basketball"],
     [ncaaId |-> 2, espnId |-> 2, sport |-> "basketball"],
     [ncaaId |-> 3, espnId |-> 4, sport |-> "football"]}

EspnDataPool == {{}, EspnPool}

CrInit ==
    /\ nmPc = "in"
    /\ nmA \in [espn : ListsOf(EspnPool, MaxEspn), ncaa : ListsOf(NcaaPool, MaxNcaa)]
    /\ nmB \in [cross : SUBSET CrossPool, espnData : EspnDataPool]
    /\ nmOut = <<>>

\* a call _leverageExistingBindings(nmA.espn, nmA.ncaa, verbose) with the
\* binding files nmB.cross and the endpoint teams nmB.espnData
CallLeverageExistingBindings ==
    /\ nmPc = "in"
    /\ nmOut' = [schoolMap |-> schoolMap(nmB.cross, nmB.espnData),
                 result |-> leverageExistingBindings(nmA.espn, nmA.ncaa)]
    /\ nmPc' = "_leverageExistingBindings"
    /\ UNCHANGED <<nmA, nmB, notNm>>

CrNext == CallLeverageExistingBindings

\* Has the school map of the call an entry for one of the keys of the ESPN team ?
SchoolBound(eTeam) == \E key \in SchoolKeys(eTeam) : key \in DOMAIN nmOut.schoolMap

\* C33: the cross-sport stage merges an ESPN team with an NCAA team only if
\* the school map built from the binding files of the sports has an entry for
\* one of the keys (location, cleaned display name, name) of the ESPN team.
C33_MergedOnlyIfSchoolBound ==
    nmPc = "_leverageExistingBindings" =>
        \A m \in DOMAIN nmOut.result.newMatches : SchoolBound(nmOut.result.newMatches[m].espnTeam)

\* The school map is the map of the keys of the bound ESPN teams: a key is in
\* it exactly when a binding file binds an ESPN team with that key.
C33_SchoolMapBuilt ==
    nmPc = "_leverageExistingBindings" =>
        \A t \in EspnPool : \A key \in SchoolKeys(t) :
            key \in DOMAIN nmOut.schoolMap
                <=> \E c \in nmB.cross : \E t2 \in nmB.espnData : t2.id = c.espnId /\ key \in SchoolKeys(t2)

\* A merge of the cross-sport stage made while no binding file has an entry.
C33_MergedWithNoBinding ==
    /\ nmPc = "_leverageExistingBindings"
    /\ nmB.cross = {}
    /\ nmOut.result.newMatches # <<>>

(***************************************************************************)
(* PART G - the last deduplication of get_formatted_games called alone     *)
(* (src/src/games/football-games-college.js, lines 1401-1408)              *)
(* An id is a number here; two ids that are the same string are the same   *)
(* number.                                                                 *)
(***************************************************************************)

\* const allCombinedGames = [...allGames, ...uniqueNcaaGames];
\* const finalGames = _deduplicateGames(allCombinedGames)
combineAndDeduplicate(espnGames, ncaaGames) ==
    deduplicateGames(espnGames \o uniqueNcaaGames(ncaaGames, espnGames))

\* allGames at line 1401: ESPN games, deduplicated at line 1305, each linked
\* to an NCAA game id or to none.
LinkedTo(game, reference_id) == [game EXCEPT !.reference_id = reference_id]

DdEspnPool ==
    {LinkedTo(EspnGamePool[k], r) : k \in 1..3, r \in {NoId, 11, 21}}

\* what _generateNcaaGameObjects returns for rows of the schedules of Towson:
\* the NCAA game id of the first is the ESPN id of the first ESPN game
DdNcaaPool ==
    {NcaaGameObject(NcaaRow(11, 10, 1, 2, N_Akron), T_Towson, T_Akron, "Unitas Stadium"),
     NcaaGameObject(NcaaRow(21, 4, 1, 2, N_Akron), T_Towson, T_Akron, "Unitas Stadium"),
     NcaaGameObject(NcaaRow(25, 2, 1, 2, N_Akron), T_Towson, T_Akron, "Unitas Stadium")}

DdInit ==
    /\ nmPc = "in"
    /\ nmA \in {s \in ListsOf(DdEspnPool, MaxEspnGames) :
                    \A i, j \in DOMAIN s : i # j => s[i].espn_id # s[j].espn_id}
    /\ nmB \in ListsOf(DdNcaaPool, MaxEspnGames)
    /\ nmOut = <<>>

\* lines 1401-1408 with allGames = nmA and ncaaGames = nmB
CallCombineAndDeduplicate ==
    /\ nmPc = "in"
    /\ nmOut' = combineAndDeduplicate(nmA, nmB)
    /\ nmPc' = "_deduplicateGames"
    /\ UNCHANGED <<nmA, nmB, notNm>>

DdNext == CallCombineAndDeduplicate

\* Is the ESPN game, or the NCAA-only game, among the games ?
EspnGameIn(game, games) == \E k \in DOMAIN games : games[k].espn_id = game.espn_id
NcaaOnlyGameIn(game, games) ==
    \E k \in DOMAIN games : games[k].espn_id = NoId /\ games[k].reference_id = game.reference_id

\* C35: every ESPN game and every NCAA-only game no ESPN game is linked to
\* are both among the games after the deduplication, also when the ESPN id
\* of the one is the NCAA game id of the other.
C35_BothKinds ==
    nmPc = "_deduplicateGames" =>
        /\ \A i \in DOMAIN nmA : EspnGameIn(nmA[i], nmOut)
        /\ \A j \in DOMAIN nmB :
              (\A i \in DOMAIN nmA : nmA[i].reference_id # nmB[j].reference_id)
                  => NcaaOnlyGameIn(nmB[j], nmOut)

\* The same, for the calls in which no ESPN id is an NCAA game id.
C35_BothKindsDistinctIds ==
    (/\ nmPc = "_deduplicateGames"
     /\ \A i \in DOMAIN nmA : \A j \in DOMAIN nmB : nmA[i].espn_id # nmB[j].reference_id)
        => /\ \A i \in DOMAIN nmA : EspnGameIn(nmA[i], nmOut)
           /\ \A j \in DOMAIN nmB :
                 (\A i \in DOMAIN nmA : nmA[i].reference_id # nmB[j].reference_id)
                     => NcaaOnlyGameIn(nmB[j], nmOut)

(***************************************************************************)
(* PART H - the ESPN schedule cache of one team                            *)
(* (src/src/games/football-games-college.js _processEspnTeamGames,         *)
(*  _fetchEspnTeamGames, _isTeamCacheValid, _calculateExpirationTime)      *)
(* A game of the schedule cache is its espn_id, season and date_time; the  *)
(* clock does not advance during the call.                                 *)
(***************************************************************************)

\* BASE_CACHE_TTL and the 60 * 60 * 1000 of _calculateExpirationTime, in time units
BaseCacheTtl == 6
OneHour == 1

\* allSchedulesCache[espnId] is undefined; teamData.fetchedYears is undefined
NoTeamData == <<>>
NoYears == {0}

ScheduleGame(espn_id, season, date_time) ==
    [espn_id |-> espn_id, season |-> season, date_time |-> date_time]

\* games.map(g => g.season) as a set, and games.filter by season
SeasonsOf(games) == {games[k].season : k \in DOMAIN games}
GamesOfSeasons(games, years) == SelectSeq(games, LAMBDA g : g.season \in years)

\* outcome of _fetchEspnTeamGames for a year: fetch throws, or the games are
\* returned (none when the response is not ok or has no events)
FetchThrows == [threw |-> TRUE, games |-> <<>>]
Fetched(games) == [threw |-> FALSE, games |-> games]

\* _calculateExpirationTime(games) at time dateNow
calculateExpirationTime(games, dateNow) ==
    LET nextTimes == {games[k].date_time : k \in {i \in DOMAIN games : games[i].date_time > dateNow}}
    IN  IF games = <<>> \/ nextTimes = {} THEN dateNow + BaseCacheTtl
        ELSE (CHOOSE t \in nextTimes : \A u \in nextTimes : t <= u) + OneHour

\* requiredYears.filter(year => !cachedYears.has(year))
getMissingYears(cachedYears, requiredYears) ==
    SelectSeq(requiredYears, LAMBDA year : year \notin cachedYears)

\* Math.max(...requiredYears)
MaxYear(requiredYears) ==
    CHOOSE y \in SeqToSet(requiredYears) : \A z \in SeqToSet(requiredYears) : z <= y

\* _isTeamCacheValid(teamData, requiredYears) at time dateNow
isTeamCacheValid(teamData, requiredYears, dateNow) ==
    IF teamData = NoTeamData
    THEN [isValid |-> FALSE, missingYears |-> requiredYears, needsCurrentYearOnly |-> FALSE]
    ELSE IF dateNow >= teamData.expiresAt
    THEN [isValid |-> FALSE,
          missingYears |-> IF Len(teamData.games) > 0 THEN <<MaxYear(requiredYears)>>
                           ELSE getMissingYears(SeasonsOf(teamData.games), requiredYears),
          needsCurrentYearOnly |-> Len(teamData.games) > 0]
    ELSE LET cachedYears == IF teamData.fetchedYears # NoYears THEN teamData.fetchedYears
                            ELSE SeasonsOf(teamData.games)
             missingYears == getMissingYears(cachedYears, requiredYears)
         IN  [isValid |-> missingYears = <<>>, missingYears |-> missingYears,
              needsCurrentYearOnly |-> FALSE]

\* for (const year of yearsToFetch) { try { teamGames.push(...newGames) } catch {} }
RECURSIVE FetchYears(_, _, _, _)
FetchYears(teamGames, yearsToFetch, n, fetched) ==
    IF n = 0 THEN teamGames
    ELSE LET acc == FetchYears(teamGames, yearsToFetch, n - 1, fetched)
             newGames == fetched[yearsToFetch[n]]
         IN  IF newGames.threw THEN acc ELSE acc \o newGames.games

\* _processEspnTeamGames: what it returns and allSchedulesCache[espnId]
\* when it has returned
processEspnTeamGames(teamData, yearsToScrape, dateNow, fetched) ==
    LET cacheStatus == isTeamCacheValid(teamData, yearsToScrape, dateNow)
        cachedGames == IF teamData = NoTeamData THEN <<>> ELSE teamData.games
        yearsToFetch == cacheStatus.missingYears
        kept == GamesOfSeasons(GamesOfSeasons(cachedGames, SeqToSet(yearsToScrape)),
                               SeasonsOf(cachedGames) \ SeqToSet(yearsToFetch))
        teamGames == FetchYears(kept, yearsToFetch, Len(yearsToFetch), fetched)
        existingFetchedYears == IF teamData = NoTeamData \/ teamData.fetchedYears = NoYears
                                THEN {} ELSE teamData.fetchedYears
    IN  IF cacheStatus.isValid
        THEN [returned |-> GamesOfSeasons(teamData.games, SeqToSet(yearsToScrape)),
              cacheEntry |-> teamData, yearsToFetch |-> <<>>]
        ELSE [returned |-> teamGames,
              cacheEntry |-> [games |-> teamGames, savedAt |-> dateNow,
                              expiresAt |-> calculateExpirationTime(teamGames, dateNow),
                              fetchedYears |-> existingFetchedYears \cup SeqToSet(yearsToFetch)
                                                  \cup SeasonsOf(cachedGames)],
              yearsToFetch |-> yearsToFetch]

\* The seasons, the cached games of a team, the cache entries and the
\* outcomes of the downloads the model draws.
Seasons == {2023, 2024}
YearsToScrapePool == {<<2024>>, <<2024, 2023>>}
CachedGamePool ==
    <<ScheduleGame(11, 2023, 1), ScheduleGame(12, 2024, 3), ScheduleGame(13, 2024, 12)>>
DownloadedGame(year) == ScheduleGame(14, year, 14)
Clock == {5, 10}

TeamDataPool ==
    {NoTeamData} \cup
    UNION {{[games |-> Pick(CachedGamePool, S), savedAt |-> 2, expiresAt |-> 8,
             fetchedYears |-> years] :
                years \in {NoYears} \cup {ys \in SUBSET Seasons :
                                             \A k \in S : CachedGamePool[k].season \in ys}} :
           S \in SUBSET DOMAIN CachedGamePool}

FetchedPool ==
    [Seasons -> {FetchThrows, Fetched(<<>>)}] \cup
    {[y \in Seasons |-> IF y \in got THEN Fetched(<<DownloadedGame(y)>>) ELSE out] :
        got \in SUBSET Seasons \ {{}}, out \in {FetchThrows, Fetched(<<>>)}}

ScInit ==
    /\ nmPc = "in"
    /\ nmA \in [teamData : TeamDataPool, yearsToScrape : YearsToScrapePool, dateNow : Clock]
    /\ nmB \in FetchedPool
    /\ nmOut = <<>>

\* a call _processEspnTeamGames(espnId, team, nmA.yearsToScrape, allSchedulesCache, ...)
\* at time nmA.dateNow, with allSchedulesCache[espnId] = nmA.teamData and the
\* downloads answering nmB
CallProcessEspnTeamGames ==
    /\ nmPc = "in"
    /\ nmOut' = processEspnTeamGames(nmA.teamData, nmA.yearsToScrape, nmA.dateNow, nmB)
    /\ nmPc' = "_processEspnTeamGames"
    /\ UNCHANGED <<nmA, nmB, notNm>>

ScNext == CallProcessEspnTeamGames

\* The games of a season the cache held for the team before the call.
CachedBefore(year) ==
    IF nmA.teamData = NoTeamData THEN <<>> ELSE GamesOfSeasons(nmA.teamData.games, {year})

\* Did the call download the season and get no game (the download threw,
\* or returned nothing) ?
DownloadFailed(year) ==
    /\ \E n \in DOMAIN nmOut.yearsToFetch : nmOut.yearsToFetch[n] = year
    /\ nmB[year].games = <<>>

\* C37: a download that fails or returns nothing for a season leaves the
\* games the cache held for the team and season in the cache.
C37_FailedFetchKeepsCache ==
    nmPc = "_processEspnTeamGames" =>
        \A year \in SeqToSet(nmA.yearsToScrape) :
            DownloadFailed(year) => GamesOfSeasons(nmOut.cacheEntry.games, {year}) = CachedBefore(year)

\* The games of a requested season the call did not download stay in the cache.
C37_NotFetchedKeepsCache ==
    nmPc = "_processEspnTeamGames" =>
        \A year \in SeqToSet(nmA.yearsToScrape) :
            (\A n \in DOMAIN nmOut.yearsToFetch : nmOut.yearsToFetch[n] # year)
                => GamesOfSeasons(nmOut.cacheEntry.games, {year}) = CachedBefore(year)

\* A failed download of a season the cache held games of.
C37_FailedWithCachedGames ==
    /\ nmPc = "_processEspnTeamGames"
    /\ \E year \in SeqToSet(nmA.yearsToScrape) : DownloadFailed(year) /\ CachedBefore(year) # <<>>

(***************************************************************************)
(* PART I - scrapeWithRetry, one await at a time                           *)
(* (src/src/util/ncaa-school-util.js scrapeWithRetry)                      *)
(* nmA holds attempt, the number of page.goto(url) made and what the call  *)
(* is asked to scrape; nmB holds what each attempt came to; nmOut is       *)
(* let result.                                                             *)
(***************************************************************************)

\* for (let attempt = 1; attempt <= 3; attempt++)
MaxAttempts == 3

\* What scrapeAction may return (null included), and let result = null.
NullResult == "null"
ScrapeValues == {NullResult, "rows", "coach"}

\* The target pages.
UrlPool == {"team", "roster"}

SwInit ==
    /\ nmPc = "goto"
    /\ nmA \in [attempt : {1}, loads : {0}, url : UrlPool]
    /\ nmB = <<>>
    /\ nmOut = NullResult

\* what the attempt came to is noted
Noted(outcome, value) == Append(nmB, [attempt |-> nmA.attempt, outcome |-> outcome, value |-> value])

\* A loop that allows one attempt more.
OneAttemptMore(pc) == IF nmA.attempt + 1 <= MaxAttempts + 1 THEN pc ELSE "return"

\* attempt++ and the test attempt <= 3 of the for statement
NextAttempt(pc) == IF nmA.attempt + 1 <= MaxAttempts THEN pc ELSE "return"

\* await page.goto(url, ...): the page loads, or goto throws
PageGoto ==
    /\ nmPc = "goto"
    /\ nmA' = [nmA EXCEPT !.loads = @ + 1]
    /\ \/ nmPc' = "title" /\ nmB' = nmB
       \/ nmPc' = "catch" /\ nmB' = Noted("goto threw", NullResult)
    /\ UNCHANGED <<nmOut, notNm>>

\* await sleep(1000); page.title(); page.evaluate(...): access is denied, or
\* the page is the one asked for, or one of the calls throws
PageTitleAndText ==
    /\ nmPc = "title"
    /\ \/ /\ nmPc' = IF nmA.attempt < 3 THEN "session" ELSE "return"
          /\ nmB' = Noted("denied", NullResult)
       \/ nmPc' = "scrape" /\ nmB' = nmB
       \/ nmPc' = "catch" /\ nmB' = Noted("page threw", NullResult)
    /\ UNCHANGED <<nmA, nmOut, notNm>>

\* await sleep(5000); try { page.goto('https://stats.ncaa.org/') ... } catch {};
\* continue
NewSession ==
    /\ nmPc = "session"
    /\ nmPc' = NextAttempt("goto")
    /\ nmA' = [nmA EXCEPT !.attempt = @ + 1]
    /\ UNCHANGED <<nmB, nmOut, notNm>>

\* result = await scrapeAction(page); break: scrapeAction returns a value, or throws
ScrapeAction ==
    /\ nmPc = "scrape"
    /\ \/ \E value \in ScrapeValues :
             /\ nmOut' = value
             /\ nmB' = Noted("completed", value)
             /\ nmPc' = "return"
       \/ /\ nmPc' = "catch"
          /\ nmB' = Noted("scrapeAction threw", NullResult)
          /\ nmOut' = nmOut
    /\ UNCHANGED <<nmA, notNm>>

\* catch (error) { ...; await sleep(3000 * attempt) } and the next turn of the loop
CatchError ==
    /\ nmPc = "catch"
    /\ nmPc' = NextAttempt("goto")
    /\ nmA' = [nmA EXCEPT !.attempt = @ + 1]
    /\ UNCHANGED <<nmB, nmOut, notNm>>

\* return result
ReturnResult ==
    /\ nmPc = "return"
    /\ nmPc' = "done"
    /\ UNCHANGED <<nmA, nmB, nmOut, notNm>>

SwNext == PageGoto \/ PageTitleAndText \/ NewSession \/ ScrapeAction \/ CatchError \/ ReturnResult

\* The attempts on which scrapeAction completed.
Completed == {k \in DOMAIN nmB : nmB[k].outcome = "completed"}

\* What scrapeWithRetry is to return: what scrapeAction returned on the first
\* attempt on which it completed, null if it completed on none.
ResultDue ==
    IF Completed = {} THEN NullResult
    ELSE nmB[CHOOSE k \in Completed : \A j \in Completed : k <= j].value

\* C38: scrapeWithRetry returns, having loaded the target URL at most 3
\* times; it returns what scrapeAction returned on the first attempt on which
\* scrapeAction completed, and null if every attempt was denied or threw.
C38_ReturnsWithinThreeLoads ==
    <>(nmPc = "done" /\ nmA.loads <= 3 /\ nmOut = ResultDue)

\* In every state the target URL has been loaded at most 3 times.
C38_AtMostThreeLoads == nmA.loads <= 3

\* The call has returned what scrapeAction returned on the third attempt,
\* after one attempt that was denied and one that threw.
C38_CompletedOnThird ==
    /\ nmPc = "done"
    /\ nmA.loads = 3
    /\ Len(nmB) = 3
    /\ {nmB[1].outcome, nmB[2].outcome} = {"denied", "scrapeAction threw"}
    /\ nmB[3].outcome = "completed"
    /\ nmOut = nmB[3].value
    /\ nmOut # NullResult

\* The call has returned null after three attempts none of which completed.
C38_NullAfterThree ==
    /\ nmPc = "done"
    /\ nmA.loads = 3
    /\ Completed = {}
    /\ nmOut = NullResult

(***************************************************************************)
(* Specifications                                                          *)
(***************************************************************************)

ConsIdle == /\ consFile = [s \in Sports |-> EmptySportMap]
            /\ consReturned = EmptySportMap
            /\ consCalls = 0
            /\ consLast = NoCall
NmIdle == /\ nmPc = "idle" /\ nmA = <<>> /\ nmB = <<>> /\ nmOut = <<>>
TmIdle == /\ tmPc = "idle"
          /\ espnTeams = <<>> /\ ncaaTeamsWithIds = <<>> /\ bindings = <<>>
          /\ TmLocalsEmpty
GmIdle == /\ gmPc = "idle"
          /\ initialTeamsData = <<>> /\ espnCache = <<>> /\ ncaaCache = <<>>
          /\ verbose = FALSE /\ now = 0
          /\ GmLocalsEmpty

\* The consolidation map under arbitrary addDuplicateMapping calls.
ConsolidationInit == ConsInit /\ NmIdle /\ TmIdle /\ GmIdle
SpecConsolidation == ConsolidationInit /\ [][ConsNext]_vars

\* The name functions applied to names of the pool.
NamesInit == NmInit /\ ConsIdle /\ TmIdle /\ GmIdle
SpecNames == NamesInit /\ [][NmNext]_vars

\* _parseNcaaDate applied to date texts of the pool.
DatesInit == DtInit /\ ConsIdle /\ TmIdle /\ GmIdle
SpecDates == DatesInit /\ [][DtNext]_vars

\* The two addNcaaIdsToTeams applied to lists of the pools.
NcaaIdsInit == IdInit /\ ConsIdle /\ TmIdle /\ GmIdle
SpecNcaaIds == NcaaIdsInit /\ [][IdNext]_vars

\* _leverageExistingBindings applied to team lists of the pools.
CrossSportInit == CrInit /\ ConsIdle /\ TmIdle /\ GmIdle
SpecCrossSport == CrossSportInit /\ [][CrNext]_vars

\* The last deduplication applied to game lists of the pools.
DedupInit == DdInit /\ ConsIdle /\ TmIdle /\ GmIdle
SpecDedup == DedupInit /\ [][DdNext]_vars

\* _processEspnTeamGames applied to cache entries of the pool.
ScheduleCacheInit == ScInit /\ ConsIdle /\ TmIdle /\ GmIdle
SpecScheduleCache == ScheduleCacheInit /\ [][ScNext]_vars

\* scrapeWithRetry run step by step, the page answering anything.
ScrapeInit == SwInit /\ ConsIdle /\ TmIdle /\ GmIdle
SpecScrape == ScrapeInit /\ [][SwNext]_vars

\* The same, every await of scrapeWithRetry settling (page.goto has a timeout,
\* the sleeps end, the page answers or throws).
SpecScrapeLive == SpecScrape /\ WF_vars(SwNext)

\* matchEspnToNcaaTeams run stage by stage on team lists of the pools.
TeamsInit == TmInit /\ ConsIdle /\ NmIdle /\ GmIdle
SpecTeams == TeamsInit /\ [][TmNext]_vars

\* matchEspnToNcaaTeams run twice on the same team lists, with an empty
\* bindings object.
TeamsTwiceInit ==
    /\ TeamsInit
    /\ bindings = Binding(NoId, NoId, NoId)
    /\ Len(espnTeams) + Len(ncaaTeamsWithIds) <= MaxTwiceTeams
SpecTeamsTwice == TeamsTwiceInit /\ [][TmTwiceNext]_vars

\* matchEspnToNcaaTeams run on team lists of the pools, then run again with
\* the bindings the first run returned.
TeamsFedBackInit ==
    /\ TeamsInit
    /\ Len(espnTeams) + Len(ncaaTeamsWithIds) <= MaxTwiceTeams
SpecTeamsFedBack == TeamsFedBackInit /\ [][TmFedBackNext]_vars

\* get_formatted_games run step by step on cached schedules of the pools,
\* under a consolidation map of the pool.
GamesInit ==
    /\ GmInit
    /\ consFile \in MapPool
    /\ consReturned = EmptySportMap
    /\ consCalls = 0
    /\ consLast = NoCall
    /\ NmIdle /\ TmIdle
SpecGames == GamesInit /\ [][GmNext]_vars

====
